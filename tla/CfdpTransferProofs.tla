-------------------------- MODULE CfdpTransferProofs --------------------------
(***************************************************************************)
(* The file transfer and the checksum it ends with, for files, segments    *)
(* and octets of any size.  The running checksum of a file that arrives in *)
(* segments comes first: octets added one by one are words added up, a     *)
(* segment adds what is missing of the file, and a changed octet shows.    *)
(* Then the two users: what the one decodes is what the other encoded, an  *)
(* octet is counted as often as it arrives, and the checksum of a whole    *)
(* file is that of its EOF PDU exactly if what came again adds up to       *)
(* nothing.                                                                *)
(***************************************************************************)
EXTENDS CfdpTransfer, CfdpChecksumSegments, CfdpLemmas

-----------------------------------------------------------------------------
(* The checksum of octets                                                  *)

(* Each lane counts, the first most.                                       *)
LEMMA Weights ==
  /\ Modulus \in Nat /\ Modulus > 0
  /\ \A lane \in 0 .. 3 : Weight[lane] \in Nat
  /\ Weight[0] = Radix * Radix * Radix /\ Weight[1] = Radix * Radix
  /\ Weight[2] = Radix /\ Weight[3] = 1
<1>1. Radix \in Nat /\ Radix > 1
  BY RadixAssumption DEF RadixAssumption
<1>2. /\ Weight[0] = Radix * Radix * Radix /\ Weight[1] = Radix * Radix
      /\ Weight[2] = Radix /\ Weight[3] = 1
  BY DEF Weight
<1>3. Radix * Radix \in Nat /\ Radix * Radix > 0
  BY <1>1
<1>4. Radix * Radix * Radix \in Nat /\ Radix * Radix * Radix > 0
  BY <1>1, <1>3
<1>5. Radix * Radix * Radix * Radix \in Nat /\ Radix * Radix * Radix * Radix > 0
  BY <1>1, <1>4
<1>6. \A lane \in 0 .. 3 : lane = 0 \/ lane = 1 \/ lane = 2 \/ lane = 3
  OBVIOUS
<1> HIDE DEF Weight
<1> QED BY <1>1, <1>2, <1>3, <1>4, <1>5, <1>6 DEF Modulus

(* What the octet at a position of the file, counted from 1, is worth.     *)
Worth(k) == Weight[(k - 1) % 4]

LEMMA WorthType ==
  ASSUME NEW k \in Nat, k > 0
  PROVE  Worth(k) \in Nat
<1>1. (k - 1) % 4 \in 0 .. 3
  OBVIOUS
<1> QED BY <1>1, Weights DEF Worth

(* The checksum after each octet of data that stand behind offset others.  *)
Adds(sum, offset, data, after) ==
  /\ after \in [0 .. Len(data) -> Nat]
  /\ after[0] = sum
  /\ \A n \in 1 .. Len(data) :
       after[n] = (after[n - 1] + data[n] * Worth(offset + n)) % Modulus

LEMMA UpdateAdds ==
  ASSUME NEW sum \in Nat, NEW offset \in Nat, NEW data \in Seq(Nat)
  PROVE  \E after : /\ Adds(sum, offset, data, after)
                    /\ ChecksumUpdate(sum, offset, data) = after[Len(data)]
<1> DEFINE len == Len(data)
           Step(s, n) == (s + data[n] * Weight[(offset + n - 1) % 4]) % Modulus
           step == [x \in Nat \X (1 .. len) |-> Step(x[1], x[2])]
           Turn(g) == [n \in 0 .. len |-> IF n = 0 THEN sum ELSE Step(g[n - 1], n)]
           after == CHOOSE g : g = Turn(g)
<1>1. len \in Nat /\ \A n \in 1 .. len : data[n] \in Nat
  BY LenProperties, ElementOfSeq
<1>2. ASSUME NEW s \in Nat, NEW n \in 1 .. len
      PROVE  Step(s, n) \in Nat
  <2>1. Worth(offset + n) \in Nat
    BY WorthType
  <2>0. Weight[(offset + n - 1) % 4] = Worth(offset + n)
    BY DEF Worth
  <2>2. data[n] * Worth(offset + n) \in Nat
    BY <1>1, <2>1
  <2> DEFINE product == data[n] * Worth(offset + n)
  <2> HIDE DEF product
  <2>3. (s + product) % Modulus \in Nat
    BY <2>2, Weights, Remainder, SMTT(40) DEF product
  <2> QED BY <2>0, <2>3 DEF product
<1>3. ChecksumUpdate(sum, offset, data) = after[len]
  BY DEF ChecksumUpdate
<1> HIDE DEF len, Step
<1>4. step \in [Nat \X (1 .. len) -> Nat]
  BY <1>2
<1>5. PICK f \in [0 .. len -> Nat] : Accumulates(len, sum, step, f)
  <2> HIDE DEF step
  <2> QED BY <1>1, <1>4, Recursion
<1>6. f[0] = sum /\ \A n \in 1 .. len : f[n] = Step(f[n - 1], n)
  <2>1. ASSUME NEW n \in 1 .. len PROVE f[n] = Step(f[n - 1], n)
    <3>1. f[n - 1] \in Nat
      <4>1. n - 1 \in 0 .. len
        BY <1>1
      <4> QED BY <1>5, <4>1
    <3>2. step[<<f[n - 1], n>>] = Step(f[n - 1], n)
      <4>1. <<f[n - 1], n>> \in Nat \X (1 .. len)
        BY <3>1
      <4> QED BY <4>1
    <3> QED BY <1>5, <3>2 DEF Accumulates
  <2> QED BY <1>5, <2>1 DEF Accumulates
<1>7. f = Turn(f)
  <2>1. \A n \in 0 .. len : n # 0 => n \in 1 .. len
    OBVIOUS
  <2>2. \A n \in 0 .. len : f[n] = IF n = 0 THEN sum ELSE Step(f[n - 1], n)
    BY <1>6, <2>1
  <2>3. f = [n \in 0 .. len |-> f[n]]
    BY <1>5
  <2> QED BY <2>2, <2>3
<1>8. after = Turn(after)
  <2> HIDE DEF Turn
  <2> QED BY <1>7
<1> HIDE DEF after
<1>9. /\ DOMAIN after = 0 .. len
      /\ \A n \in 0 .. len : after[n] = IF n = 0 THEN sum ELSE Step(after[n - 1], n)
  <2> DEFINE g == Turn(after)
  <2>1. DOMAIN g = 0 .. len /\ \A n \in 0 .. len : g[n] = IF n = 0 THEN sum ELSE Step(after[n - 1], n)
    OBVIOUS
  <2> HIDE DEF g
  <2>2. after = g
    BY <1>8 DEF g
  <2> QED BY <2>1, <2>2
<1> DEFINE T == {n \in 0 .. len : after[n] \in Nat}
<1>10. 0 \in T
  BY <1>1, <1>9
<1>11. ASSUME NEW n \in 0 .. len, n \in T, n < len
       PROVE  n + 1 \in T
  <2>1. n + 1 \in 0 .. len /\ n + 1 \in 1 .. len /\ n + 1 # 0 /\ (n + 1) - 1 = n
    BY <1>1, <1>11
  <2>2. after[n + 1] = Step(after[n], n + 1)
    BY <1>9, <2>1
  <2> QED BY <1>2, <1>11, <2>1, <2>2
<1>12. 0 .. len \subseteq T
  <2> HIDE DEF T
  <2> QED BY <1>1, <1>10, <1>11, BoundedInduction
<1>13. after \in [0 .. len -> Nat]
  <2>1. \A n \in 0 .. len : after[n] \in Nat
    BY <1>12
  <2>2. after = [n \in 0 .. len |-> after[n]]
    BY <1>8
  <2> QED BY <2>1, <2>2
<1>14. after[0] = sum /\ \A n \in 1 .. len : after[n] = Step(after[n - 1], n)
  <2>1. 0 \in 0 .. len /\ \A n \in 1 .. len : n \in 0 .. len /\ n # 0
    BY <1>1
  <2> QED BY <1>9, <2>1
<1>15. \A n \in 1 .. len : Weight[(offset + n - 1) % 4] = Worth(offset + n)
  BY DEF Worth
<1>16. Adds(sum, offset, data, after)
  BY <1>13, <1>14, <1>15 DEF Adds, len, Step
<1> QED BY <1>3, <1>16 DEF len

-----------------------------------------------------------------------------
(* The sum of words                                                        *)

(* The words of a file, added up one by one.                               *)
WordSumAdds(f, of) ==
  /\ of \in [0 .. Words(f) -> Nat]
  /\ of[0] = 0
  /\ \A n \in 1 .. Words(f) : of[n] = (of[n - 1] + Word(f, n - 1)) % Modulus

LEMMA WordType ==
  ASSUME NEW f \in Seq(Nat), NEW w \in Nat
  PROVE  Word(f, w) \in Nat
<1> DEFINE Lane(k) == IF 4 * w + k \in DOMAIN f THEN f[4 * w + k] ELSE 0
<1>1. \A k \in Nat : Lane(k) \in Nat
  BY ElementOfSeq, LenProperties
<1>2. Radix \in Nat
  BY RadixAssumption DEF RadixAssumption
<1>3. Word(f, w) = ((Lane(1) * Radix + Lane(2)) * Radix + Lane(3)) * Radix + Lane(4)
  BY DEF Word
<1> HIDE DEF Lane
<1>4. Lane(1) \in Nat /\ Lane(2) \in Nat /\ Lane(3) \in Nat /\ Lane(4) \in Nat
  BY <1>1
<1> DEFINE Shifted(high, low) == high * Radix + low
<1>5. \A high, low \in Nat : Shifted(high, low) \in Nat
  <2>1. ASSUME NEW high \in Nat, NEW low \in Nat PROVE Shifted(high, low) \in Nat
    <3>1. high * Radix \in Nat
      BY ONLY <1>2, ProductType
    <3> DEFINE product == high * Radix
    <3> HIDE DEF product
    <3>2. product + low \in Nat
      BY <3>1 DEF product
    <3> QED BY <3>2 DEF product
  <2> QED BY <2>1
<1>6. Word(f, w) = Shifted(Shifted(Shifted(Lane(1), Lane(2)), Lane(3)), Lane(4))
  BY <1>3
<1> HIDE DEF Shifted
<1>7. Shifted(Lane(1), Lane(2)) \in Nat
  BY <1>4, <1>5
<1>8. Shifted(Shifted(Lane(1), Lane(2)), Lane(3)) \in Nat
  BY <1>4, <1>5, <1>7
<1>9. Shifted(Shifted(Shifted(Lane(1), Lane(2)), Lane(3)), Lane(4)) \in Nat
  BY <1>4, <1>5, <1>8
<1> QED BY <1>6, <1>9

LEMMA WordSumIsAdded ==
  ASSUME NEW f \in Seq(Nat)
  PROVE  \E of : WordSumAdds(f, of) /\ WordSum(f) = of[Words(f)]
<1> DEFINE words == Words(f)
           Step(s, n) == (s + Word(f, n - 1)) % Modulus
           step == [x \in Nat \X (1 .. words) |-> Step(x[1], x[2])]
           Turn(g) == [n \in 0 .. words |-> IF n = 0 THEN 0 ELSE Step(g[n - 1], n)]
           of == CHOOSE g : g = Turn(g)
<1>1. words \in Nat
  BY LenProperties DEF Words
<1>2. ASSUME NEW s \in Nat, NEW n \in 1 .. words
      PROVE  Step(s, n) \in Nat
  <2>1. n - 1 \in Nat
    BY <1>1
  <2>2. Word(f, n - 1) \in Nat
    BY <2>1, WordType
  <2> DEFINE word == Word(f, n - 1)
  <2> HIDE DEF word
  <2>3. (s + word) % Modulus \in Nat
    BY <2>2, Weights, Remainder DEF word
  <2> QED BY <2>3 DEF word
<1>3. WordSum(f) = of[words]
  BY DEF WordSum
<1> HIDE DEF words, Step
<1>4. step \in [Nat \X (1 .. words) -> Nat]
  BY <1>2
<1>5. PICK h \in [0 .. words -> Nat] : Accumulates(words, 0, step, h)
  <2> HIDE DEF step
  <2> QED BY <1>1, <1>4, Recursion
<1>6. h[0] = 0 /\ \A n \in 1 .. words : h[n] = Step(h[n - 1], n)
  <2>1. ASSUME NEW n \in 1 .. words PROVE h[n] = Step(h[n - 1], n)
    <3>1. h[n - 1] \in Nat
      <4>1. n - 1 \in 0 .. words
        BY <1>1
      <4> QED BY <1>5, <4>1
    <3>2. step[<<h[n - 1], n>>] = Step(h[n - 1], n)
      <4>1. <<h[n - 1], n>> \in Nat \X (1 .. words)
        BY <3>1
      <4> QED BY <4>1
    <3> QED BY <1>5, <3>2 DEF Accumulates
  <2> QED BY <1>5, <2>1 DEF Accumulates
<1>7. h = Turn(h)
  <2>1. \A n \in 0 .. words : n # 0 => n \in 1 .. words
    OBVIOUS
  <2>2. \A n \in 0 .. words : h[n] = IF n = 0 THEN 0 ELSE Step(h[n - 1], n)
    BY <1>6, <2>1
  <2>3. h = [n \in 0 .. words |-> h[n]]
    BY <1>5
  <2> QED BY <2>2, <2>3
<1>8. of = Turn(of)
  <2> HIDE DEF Turn
  <2> QED BY <1>7
<1> HIDE DEF of
<1>9. /\ DOMAIN of = 0 .. words
      /\ \A n \in 0 .. words : of[n] = IF n = 0 THEN 0 ELSE Step(of[n - 1], n)
  <2> DEFINE g == Turn(of)
  <2>1. DOMAIN g = 0 .. words /\ \A n \in 0 .. words : g[n] = IF n = 0 THEN 0 ELSE Step(of[n - 1], n)
    OBVIOUS
  <2> HIDE DEF g
  <2>2. of = g
    BY <1>8 DEF g
  <2> QED BY <2>1, <2>2
<1> DEFINE T == {n \in 0 .. words : of[n] \in Nat}
<1>10. 0 \in T
  BY <1>1, <1>9
<1>11. ASSUME NEW n \in 0 .. words, n \in T, n < words
       PROVE  n + 1 \in T
  <2>1. n + 1 \in 0 .. words /\ n + 1 \in 1 .. words /\ n + 1 # 0 /\ (n + 1) - 1 = n
    BY <1>1, <1>11
  <2>2. of[n + 1] = Step(of[n], n + 1)
    BY <1>9, <2>1
  <2> QED BY <1>2, <1>11, <2>1, <2>2
<1>12. 0 .. words \subseteq T
  <2> HIDE DEF T
  <2> QED BY <1>1, <1>10, <1>11, BoundedInduction
<1>13. of \in [0 .. words -> Nat]
  <2>1. \A n \in 0 .. words : of[n] \in Nat
    BY <1>12
  <2>2. of = [n \in 0 .. words |-> of[n]]
    BY <1>8
  <2> QED BY <2>1, <2>2
<1>14. of[0] = 0 /\ \A n \in 1 .. words : of[n] = Step(of[n - 1], n)
  <2>1. 0 \in 0 .. words /\ \A n \in 1 .. words : n \in 0 .. words /\ n # 0
    BY <1>1
  <2> QED BY <1>9, <2>1
<1>15. WordSumAdds(f, of)
  BY <1>13, <1>14 DEF WordSumAdds, words, Step
<1> QED BY <1>3, <1>15 DEF words

-----------------------------------------------------------------------------
(* What a checksum is                                                      *)

Checksum == 0 .. Modulus - 1

(* A file is data at its own start.                                        *)
LEMMA ComputeAdds ==
  ASSUME NEW f \in Seq(Nat)
  PROVE  \E after : Adds(0, 0, f, after) /\ ChecksumCompute(f) = after[Len(f)]
BY UpdateAdds DEF ChecksumCompute

(* Remainders of the modulus are checksums, and checksums their own.       *)
LEMMA SumType ==
  /\ \A n \in Int : (n % Modulus) \in Checksum
  /\ \A n \in Checksum : n \in Nat /\ n = (n % Modulus)
  /\ 0 \in Checksum
<1>1. ASSUME NEW n \in Int PROVE (n % Modulus) \in Checksum
  BY Weights, Remainder DEF Checksum
<1>2. ASSUME NEW n \in Checksum PROVE n \in Nat /\ n = (n % Modulus)
  <2>1. n \in Nat /\ 0 <= n /\ n < Modulus /\ Modulus \in Nat
    BY Weights DEF Checksum
  <2>2. (Modulus * 0 + n) % Modulus = n
    BY <2>1, RemainderIs
  <2>3. Modulus * 0 + n = n
    BY <2>1
  <2> QED BY <2>1, <2>2, <2>3
<1>3. 0 \in Checksum
  BY Weights DEF Checksum
<1> QED BY <1>1, <1>2, <1>3

(* A checksum stays one.                                                   *)
LEMMA SumsStay ==
  ASSUME NEW sum \in Checksum, NEW offset \in Nat, NEW data \in Seq(Nat), NEW after,
         Adds(sum, offset, data, after)
  PROVE  \A n \in 0 .. Len(data) : after[n] \in Checksum
<1> SUFFICES ASSUME NEW n \in 0 .. Len(data) PROVE after[n] \in Checksum
  OBVIOUS
<1>1. CASE n = 0
  BY <1>1 DEF Adds
<1>2. CASE n # 0
  <2>1. n \in 1 .. Len(data) /\ n - 1 \in 0 .. Len(data) /\ n \in Nat /\ n > 0
    BY <1>2, LenProperties
  <2>2. after[n - 1] \in Nat /\ data[n] \in Nat
    BY <2>1, ElementOfSeq DEF Adds
  <2>3. Worth(offset + n) \in Nat
    BY <2>1, WorthType, SMTT(40)
  <2>4. after[n - 1] + data[n] * Worth(offset + n) \in Int
    BY <2>2, <2>3
  <2> DEFINE total == after[n - 1] + data[n] * Worth(offset + n)
  <2>5. after[n] = total % Modulus
    BY <2>1 DEF Adds
  <2> HIDE DEF total
  <2> QED BY <2>4, <2>5, SumType DEF total
<1> QED BY <1>1, <1>2

(* The checksum is a checksum, and no data change none.                    *)
LEMMA UpdateType ==
  ASSUME NEW sum \in Checksum, NEW offset \in Nat, NEW data \in Seq(Nat)
  PROVE  /\ ChecksumUpdate(sum, offset, data) \in Checksum
         /\ Len(data) = 0 => ChecksumUpdate(sum, offset, data) = sum
<1>1. sum \in Nat
  BY SumType
<1>2. PICK after : /\ Adds(sum, offset, data, after)
                   /\ ChecksumUpdate(sum, offset, data) = after[Len(data)]
  BY <1>1, UpdateAdds
<1>3. \A n \in 0 .. Len(data) : after[n] \in Checksum
  BY <1>2, SumsStay
<1>4. Len(data) \in 0 .. Len(data)
  BY LenProperties
<1> QED BY <1>2, <1>3, <1>4 DEF Adds

LEMMA ProductOfSum ==
  ASSUME NEW a \in Nat, NEW b \in Nat, NEW c \in Nat
  PROVE  (a + b) * c = a * c + b * c
OBVIOUS

(* What is added to an octet counts for what it is worth, wherever the     *)
(* octet is in the file.                                                   *)
LEMMA PointUpdate ==
  ASSUME NEW f \in Seq(Nat), NEW g \in Seq(Nat), Len(g) = Len(f),
         NEW k \in 1 .. Len(f), NEW d \in Nat, g[k] = f[k] + d,
         \A n \in 1 .. Len(f) : n # k => g[n] = f[n]
  PROVE  ChecksumCompute(g) = (ChecksumCompute(f) + d * Worth(k)) % Modulus
<1> DEFINE len == Len(f)
           worth == d * Worth(k)
<1>1. len \in Nat /\ k \in Nat /\ k > 0 /\ k <= len /\ worth \in Nat
  <2>1. Worth(k) \in Nat /\ len \in Nat
    BY LenProperties, WorthType
  <2>2. d * Worth(k) \in Nat
    BY ONLY <2>1, d \in Nat, ProductType
  <2> QED BY <2>1, <2>2
<1>2. PICK a : Adds(0, 0, f, a) /\ ChecksumCompute(f) = a[len]
  BY ComputeAdds
<1>3. PICK b : Adds(0, 0, g, b) /\ ChecksumCompute(g) = b[Len(g)]
  BY ComputeAdds
<1>4. \A n \in 0 .. len : a[n] \in Checksum
  BY <1>2, SumType, SumsStay
<1> HIDE DEF worth
<1> DEFINE T == {n \in 0 .. len : b[n] = IF n < k THEN a[n] ELSE (a[n] + worth) % Modulus}
<1>5. 0 \in T
  BY <1>1, <1>2, <1>3 DEF Adds
<1>6. ASSUME NEW n \in 0 .. len, n \in T, n < len
      PROVE  n + 1 \in T
  <2> DEFINE m == n + 1
             o == f[m] * Worth(m)
             p == g[m] * Worth(m)
  <2>1. m \in 1 .. len /\ m - 1 = n /\ m \in 0 .. len /\ m \in Nat /\ m > 0
    BY <1>1, <1>6
  <2>2. 0 + m = m
    BY <2>1
  <2>3. a[m] = (a[n] + o) % Modulus
    BY <1>2, <2>1, <2>2 DEF Adds
  <2>4. b[m] = (b[n] + p) % Modulus
    BY <1>3, <2>1, <2>2 DEF Adds
  <2>5. o \in Nat /\ p \in Nat
    <3>1. f[m] \in Nat /\ g[m] \in Nat
      BY <2>1, ElementOfSeq
    <3>2. Worth(m) \in Nat
      BY <2>1, WorthType
    <3> QED BY ONLY <3>1, <3>2, ProductType
  <2>6. a[n] \in Nat /\ a[n] = (a[n] % Modulus)
    BY <1>4, SumType
  <2>7. m # k => o = p
    BY <2>1
  <2>8. m = k => p = o + worth
    <3>1. Worth(k) \in Nat /\ f[k] \in Nat
      BY <1>1, WorthType, ElementOfSeq
    <3>2. (f[k] + d) * Worth(k) = f[k] * Worth(k) + d * Worth(k)
      BY ONLY <3>1, d \in Nat, ProductOfSum
    <3> QED BY <3>2 DEF worth
  <2>9. Modulus \in Nat /\ Modulus > 0
    BY Weights
  <2>10. n \in Int
    OBVIOUS
  <2> HIDE DEF o, p
  <2>11. CASE m < k
    <3>1. n < k /\ m # k
      BY <2>10, <2>11, <1>1
    <3> QED BY <1>6, <2>1, <2>3, <2>4, <2>7, <2>11, <3>1
  <2>12. CASE m = k
    <3>1. n < k /\ ~ (m < k)
      BY <2>10, <2>12, <1>1
    <3>2. b[m] = (a[n] + (o + worth)) % Modulus
      BY <1>6, <2>4, <2>8, <2>12, <3>1
    <3>3. (((a[n] + o) % Modulus) + worth) % Modulus = ((a[n] + o) + worth) % Modulus
      <4>1. a[n] + o \in Int /\ worth \in Int
        BY <1>1, <2>5, <2>6
      <4> QED BY ONLY <2>9, <4>1, RemainderOfSum
    <3>4. a[n] + (o + worth) = (a[n] + o) + worth
      BY <1>1, <2>5, <2>6
    <3>5. b[m] = (a[m] + worth) % Modulus
      BY <2>3, <3>2, <3>3, <3>4
    <3> QED BY <2>1, <3>1, <3>5
  <2>13. CASE m > k
    <3>1. ~ (n < k) /\ ~ (m < k) /\ m # k
      BY <2>10, <2>13, <1>1
    <3>2. b[m] = (((a[n] + worth) % Modulus) + o) % Modulus
      BY <1>6, <2>4, <2>7, <3>1
    <3>3. a[n] + worth \in Int /\ o \in Int
      BY <1>1, <2>5, <2>6
    <3>4. (((a[n] + worth) % Modulus) + o) % Modulus = ((a[n] + worth) + o) % Modulus
      BY <2>9, <3>3, RemainderOfSum
    <3>5. a[n] + o \in Int /\ worth \in Int
      BY <1>1, <2>5, <2>6
    <3>6. (((a[n] + o) % Modulus) + worth) % Modulus = ((a[n] + o) + worth) % Modulus
      BY <2>9, <3>5, RemainderOfSum
    <3>7. (a[n] + worth) + o = (a[n] + o) + worth
      BY <1>1, <2>5, <2>6
    <3>8. b[m] = (a[m] + worth) % Modulus
      BY <2>3, <3>2, <3>4, <3>6, <3>7
    <3> QED BY <2>1, <3>1, <3>8
  <2>14. m < k \/ m = k \/ m > k
    BY <1>1, <2>1
  <2> QED BY <2>11, <2>12, <2>13, <2>14
<1>7. 0 .. len \subseteq T
  <2> HIDE DEF T
  <2> QED BY <1>1, <1>5, <1>6, BoundedInduction
<1>8. len \in T /\ ~ (len < k)
  BY <1>1, <1>7, SMTT(40)
<1> QED BY <1>2, <1>3, <1>8 DEF worth

(* To fold a segment into the checksum of a file gives that of the file    *)
(* with the octets of the segment added to those in its place.             *)
LEMMA SegmentAdds ==
  ASSUME NEW f \in Seq(Nat), NEW g \in Seq(Nat), Len(g) = Len(f),
         NEW offset \in Nat, NEW data \in Seq(Nat), offset + Len(data) <= Len(f),
         \A k \in 1 .. Len(f) :
           IF offset < k /\ k <= offset + Len(data)
           THEN g[k] = f[k] + data[k - offset] ELSE g[k] = f[k]
  PROVE  ChecksumUpdate(ChecksumCompute(f), offset, data) = ChecksumCompute(g)
<1> DEFINE size == Len(f)
           len == Len(data)
           Mix(n) == [k \in 1 .. size |-> IF k <= offset + n THEN g[k] ELSE f[k]]
           sum == ChecksumCompute(f)
<1>1. size \in Nat /\ len \in Nat /\ offset + len <= size
  BY LenProperties
<1>2. \A k \in 1 .. size : f[k] \in Nat /\ g[k] \in Nat
  BY ElementOfSeq
<1>3. sum \in Checksum /\ sum \in Nat
  BY UpdateType, SumType DEF ChecksumCompute
<1>4. PICK after : /\ Adds(sum, offset, data, after)
                   /\ ChecksumUpdate(sum, offset, data) = after[len]
  BY <1>3, UpdateAdds
<1>5. f = [k \in 1 .. size |-> f[k]] /\ g = [k \in 1 .. size |-> g[k]]
  BY LenProperties
<1> HIDE DEF sum
<1>6. \A k \in 1 .. size : IF offset < k /\ k <= offset + len
                           THEN g[k] = f[k] + data[k - offset] ELSE g[k] = f[k]
  OBVIOUS
<1> HIDE DEF size, len
<1>7. ASSUME NEW n \in Nat
      PROVE  Mix(n) \in Seq(Nat) /\ Len(Mix(n)) = size
  <2> DEFINE mix == Mix(n)
  <2>1. \A k \in 1 .. size : (IF k <= offset + n THEN g[k] ELSE f[k]) \in Nat
    BY <1>2
  <2>2. mix \in [1 .. size -> Nat]
    BY <2>1
  <2> HIDE DEF mix
  <2>3. mix \in Seq(Nat) /\ Len(mix) = size
    BY <1>1, <2>2
  <2> QED BY <2>3 DEF mix
<1>8. Mix(0) = f
  <2>1. \A k \in 1 .. size : (IF k <= offset + 0 THEN g[k] ELSE f[k]) = f[k]
    BY <1>1, <1>6
  <2> QED BY <1>5, <2>1
<1>9. Mix(len) = g
  <2>1. \A k \in 1 .. size : (IF k <= offset + len THEN g[k] ELSE f[k]) = g[k]
    BY <1>1, <1>6
  <2> QED BY <1>5, <2>1
<1> DEFINE T == {n \in 0 .. len : after[n] = ChecksumCompute(Mix(n))}
<1>10. 0 \in T
  <2>1. 0 \in 0 .. len
    BY <1>1
  <2>2. after[0] = ChecksumCompute(f)
    BY <1>4 DEF Adds, sum
  <2> HIDE DEF Mix
  <2> QED BY <1>8, <2>1, <2>2
<1>11. ASSUME NEW n \in 0 .. len, n \in T, n < len
       PROVE  n + 1 \in T
  <2> DEFINE k == offset + (n + 1)
             a == Mix(n)
             b == Mix(n + 1)
  <2>1. /\ n + 1 \in 1 .. len /\ n + 1 \in 0 .. len /\ (n + 1) - 1 = n /\ n \in Nat /\ n + 1 \in Nat
        /\ k \in 1 .. size /\ k - offset = n + 1
        /\ ~ (k <= offset + n) /\ k <= offset + (n + 1) /\ offset < k /\ k <= offset + len
    BY <1>1, <1>11
  <2>2. a \in Seq(Nat) /\ b \in Seq(Nat) /\ Len(a) = size /\ Len(b) = Len(a)
    BY <1>7, <2>1
  <2>3. data[n + 1] \in Nat
    BY <2>1, ElementOfSeq DEF len
  <2>4. b[k] = a[k] + data[n + 1]
    <3>1. a[k] = f[k] /\ b[k] = g[k]
      BY <2>1
    <3> QED BY <1>6, <2>1, <3>1
  <2>5. ASSUME NEW i \in 1 .. size, i # k PROVE b[i] = a[i]
    <3>1. i <= offset + n <=> i <= offset + (n + 1)
      BY <1>1, <2>1, <2>5
    <3> QED BY <3>1
  <2> HIDE DEF a, b, k
  <2>6. ChecksumCompute(b) = (ChecksumCompute(a) + data[n + 1] * Worth(k)) % Modulus
    <3>1. k \in 1 .. Len(a) /\ \A i \in 1 .. Len(a) : i # k => b[i] = a[i]
      BY <2>1, <2>2, <2>5
    <3> QED BY <2>2, <2>3, <2>4, <3>1, PointUpdate, ZenonT(60)
  <2>7. after[n + 1] = (after[n] + data[n + 1] * Worth(k)) % Modulus
    BY <1>4, <2>1 DEF Adds, len, k
  <2>8. after[n] = ChecksumCompute(a)
    BY <1>11 DEF a
  <2>9. after[n + 1] = ChecksumCompute(b)
    BY <2>6, <2>7, <2>8
  <2> QED BY <2>1, <2>9 DEF b
<1>12. 0 .. len \subseteq T
  <2> HIDE DEF T
  <2> QED BY <1>1, <1>10, <1>11, BoundedInduction
<1>13. len \in T
  <2>1. len \in 0 .. len
    BY <1>1
  <2> HIDE DEF T
  <2> QED BY <1>12, <2>1
<1> QED BY <1>4, <1>9, <1>13 DEF sum

(* It does not matter which of two sums loses the carry.                   *)
LEMMA SumOfSums ==
  ASSUME NEW p \in Nat, NEW a \in Nat, NEW b \in Nat, NEW q, NEW r,
         q = (p + a) % Modulus, r = (q + b) % Modulus
  PROVE  r = (p + (a + b)) % Modulus
<1>1. Modulus \in Nat /\ Modulus > 0
  BY Weights
<1>2. p + a \in Int /\ b \in Int /\ (p + a) + b = p + (a + b)
  OBVIOUS
<1>3. (((p + a) % Modulus) + b) % Modulus = ((p + a) + b) % Modulus
  BY <1>1, <1>2, RemainderOfSum
<1> QED BY <1>2, <1>3

(* Four octets in a row, added one by one, are added as a word.            *)
LEMMA FourOctets ==
  ASSUME NEW at \in [0 .. 4 -> Nat], NEW octets \in [1 .. 4 -> Nat],
         at[1] = (at[0] + octets[1] * Weight[0]) % Modulus,
         at[2] = (at[1] + octets[2] * Weight[1]) % Modulus,
         at[3] = (at[2] + octets[3] * Weight[2]) % Modulus,
         at[4] = (at[3] + octets[4] * Weight[3]) % Modulus
  PROVE  at[4] = (at[0] + (((octets[1] * Radix + octets[2]) * Radix + octets[3]) * Radix + octets[4])) % Modulus
<1>1. Radix \in Nat
  BY RadixAssumption DEF RadixAssumption
<1> DEFINE p == at[0]
           a == octets[1]
           b == octets[2]
           c == octets[3]
           d == octets[4]
           A == a * Weight[0]
           B == b * Weight[1]
           C == c * Weight[2]
           D == d * Weight[3]
<1>2. p \in Nat /\ a \in Nat /\ b \in Nat /\ c \in Nat /\ d \in Nat
  OBVIOUS
<1>3. /\ at[1] = (p + A) % Modulus /\ at[2] = (at[1] + B) % Modulus
      /\ at[3] = (at[2] + C) % Modulus /\ at[4] = (at[3] + D) % Modulus
  OBVIOUS
<1> HIDE DEF p, a, b, c, d
<1>4. A \in Nat /\ B \in Nat /\ C \in Nat /\ D \in Nat
  <2>1. Weight[0] \in Nat /\ Weight[1] \in Nat /\ Weight[2] \in Nat /\ Weight[3] \in Nat
    BY Weights
  <2> QED BY ONLY <1>2, <2>1, ProductType
<1>5. ((a * Radix + b) * Radix + c) * Radix + d = ((A + B) + C) + D
  <2>1. A = a * (Radix * Radix * Radix) /\ B = b * (Radix * Radix) /\ C = c * Radix /\ D = d
    BY <1>2, Weights
  <2>2. (a * Radix + b) * Radix = a * (Radix * Radix) + b * Radix
    BY <1>1, <1>2
  <2>3. (a * (Radix * Radix) + b * Radix + c) * Radix
          = a * (Radix * Radix * Radix) + b * (Radix * Radix) + c * Radix
    BY <1>1, <1>2
  <2> HIDE DEF A, B, C, D
  <2>4. ((a * Radix + b) * Radix + c) * Radix = A + B + C
    BY <2>1, <2>2, <2>3
  <2> QED BY <2>1, <2>4
<1> HIDE DEF A, B, C, D
<1>6. at[2] = (p + (A + B)) % Modulus /\ A + B \in Nat
  BY <1>2, <1>3, <1>4, SumOfSums
<1>7. at[3] = (p + ((A + B) + C)) % Modulus /\ (A + B) + C \in Nat
  <2> DEFINE AB == A + B
  <2>1. AB \in Nat /\ at[2] = (p + AB) % Modulus
    BY <1>6
  <2> HIDE DEF AB
  <2>2. at[3] = (p + (AB + C)) % Modulus /\ AB + C \in Nat
    BY <1>2, <1>3, <1>4, <2>1, SumOfSums
  <2> QED BY <2>2 DEF AB
<1>8. at[4] = (p + (((A + B) + C) + D)) % Modulus
  <2> DEFINE ABC == (A + B) + C
  <2>1. ABC \in Nat /\ at[3] = (p + ABC) % Modulus
    BY <1>7, SMTT(40)
  <2> HIDE DEF ABC
  <2>2. at[4] = (p + (ABC + D)) % Modulus
    BY <1>2, <1>3, <1>4, <2>1, SumOfSums
  <2> QED BY <2>2 DEF ABC
<1> QED BY <1>5, <1>8 DEF p, a, b, c, d

(* The checksum that is computed octet by octet is the sum of the words.   *)
LEMMA WordSumIsCompute ==
  ASSUME NEW f \in Seq(Nat)
  PROVE  WordSum(f) = ChecksumCompute(f)
<1> DEFINE len == Len(f)
           words == Words(f)
           OctetAt(k) == IF k \in 1 .. len THEN f[k] ELSE 0
<1>1. PICK after : Adds(0, 0, f, after) /\ ChecksumCompute(f) = after[len]
  BY ComputeAdds
<1>2. PICK of : WordSumAdds(f, of) /\ WordSum(f) = of[words]
  BY WordSumIsAdded
<1>3. len \in Nat /\ words \in Nat /\ len <= 4 * words /\ DOMAIN f = 1 .. len
  BY LenProperties DEF Words
<1> DEFINE Padded(k) == IF k <= len THEN after[k] ELSE after[len]
<1>4. \A k \in Nat : OctetAt(k) \in Nat
  BY ElementOfSeq
<1>5. \A k \in 0 .. len : after[k] \in Checksum
  BY <1>1, SumType, SumsStay
<1>6. \A k \in Nat : Padded(k) \in Checksum /\ Padded(k) \in Nat
  <2>1. \A k \in Nat : Padded(k) \in Checksum
    BY <1>3, <1>5
  <2> HIDE DEF Padded
  <2> QED BY <2>1, SumType
<1>7. ASSUME NEW k \in Nat
      PROVE  Padded(k + 1) = (Padded(k) + OctetAt(k + 1) * Worth(k + 1)) % Modulus
  <2>1. CASE k + 1 <= len
    <3>1. k + 1 \in 1 .. len /\ (k + 1) - 1 = k /\ 0 + (k + 1) = k + 1 /\ k <= len
      BY <1>3, <2>1
    <3>2. after[k + 1] = (after[k] + f[k + 1] * Worth(k + 1)) % Modulus
      BY <1>1, <3>1 DEF Adds
    <3> QED BY <2>1, <3>1, <3>2
  <2>2. CASE ~ (k + 1 <= len)
    <3>1. Padded(k + 1) = after[len] /\ Padded(k) = after[len] /\ OctetAt(k + 1) = 0
      BY <1>3, <2>2
    <3>2. Worth(k + 1) \in Nat
      BY WorthType
    <3>3. after[len] \in Nat /\ after[len] = (after[len] % Modulus)
      BY <1>3, <1>5, SumType
    <3> HIDE DEF Padded, OctetAt
    <3>4. Padded(k) + OctetAt(k + 1) * Worth(k + 1) = after[len]
      BY <3>1, <3>2, <3>3
    <3> QED BY <3>1, <3>3, <3>4
  <2> QED BY <2>1, <2>2
<1>8. ASSUME NEW w \in Nat
      PROVE  Word(f, w) = ((OctetAt(4 * w + 1) * Radix + OctetAt(4 * w + 2)) * Radix + OctetAt(4 * w + 3)) * Radix
                            + OctetAt(4 * w + 4)
  BY <1>3 DEF Word
<1> HIDE DEF OctetAt, Padded, len, words
<1> DEFINE T == {n \in 0 .. words : of[n] = Padded(4 * n)}
<1>9. 0 \in T
  <2>1. 0 \in 0 .. words /\ 4 * 0 = 0 /\ 0 <= len
    BY <1>3
  <2>2. of[0] = 0 /\ after[0] = 0
    BY <1>1, <1>2 DEF WordSumAdds, Adds
  <2> QED BY <2>1, <2>2 DEF Padded
<1>10. ASSUME NEW n \in 0 .. words, n \in T, n < words
       PROVE  n + 1 \in T
  <2> DEFINE k == 4 * n
  <2>1. /\ n \in Nat /\ n + 1 \in 1 .. words /\ n + 1 \in 0 .. words /\ (n + 1) - 1 = n /\ 4 * (n + 1) = k + 4
        /\ k \in Nat /\ k + 1 \in Nat /\ k + 2 \in Nat /\ k + 3 \in Nat /\ k + 4 \in Nat
        /\ (k + 1) + 1 = k + 2 /\ (k + 2) + 1 = k + 3 /\ (k + 3) + 1 = k + 4
    BY <1>3, <1>10
  <2>2. /\ ((k + 1) - 1) % 4 = 0 /\ ((k + 2) - 1) % 4 = 1 /\ ((k + 3) - 1) % 4 = 2 /\ ((k + 4) - 1) % 4 = 3
    BY <2>1
  <2>3. /\ Worth(k + 1) = Weight[0] /\ Worth(k + 2) = Weight[1]
        /\ Worth(k + 3) = Weight[2] /\ Worth(k + 4) = Weight[3]
    BY <2>2 DEF Worth
  <2>4. of[n] = Padded(k)
    BY <1>10
  <2>5. of[n + 1] = (of[n] + Word(f, n)) % Modulus
    BY <1>2, <2>1 DEF WordSumAdds, words
  <2>6. Word(f, n) = ((OctetAt(k + 1) * Radix + OctetAt(k + 2)) * Radix + OctetAt(k + 3)) * Radix + OctetAt(k + 4)
    BY <1>8, <2>1
  <2> HIDE DEF k
  <2>7. /\ Padded(k) \in Nat
        /\ OctetAt(k + 1) \in Nat /\ OctetAt(k + 2) \in Nat /\ OctetAt(k + 3) \in Nat /\ OctetAt(k + 4) \in Nat
    BY <1>4, <1>6, <2>1
  <2>8. Padded(k + 1) = (Padded(k) + OctetAt(k + 1) * Weight[0]) % Modulus
    BY <1>7, <2>1, <2>3
  <2>9. Padded(k + 2) = (Padded(k + 1) + OctetAt(k + 2) * Weight[1]) % Modulus
    BY <1>7, <2>1, <2>3
  <2>10. Padded(k + 3) = (Padded(k + 2) + OctetAt(k + 3) * Weight[2]) % Modulus
    BY <1>7, <2>1, <2>3
  <2>11. Padded(k + 4) = (Padded(k + 3) + OctetAt(k + 4) * Weight[3]) % Modulus
    BY <1>7, <2>1, <2>3
  <2>12. Padded(k + 4) = (Padded(k) + (((OctetAt(k + 1) * Radix + OctetAt(k + 2)) * Radix + OctetAt(k + 3)) * Radix
                                        + OctetAt(k + 4))) % Modulus
    <3> DEFINE at == [i \in 0 .. 4 |-> Padded(k + i)]
               octets == [i \in 1 .. 4 |-> OctetAt(k + i)]
    <3>1. at \in [0 .. 4 -> Nat] /\ octets \in [1 .. 4 -> Nat]
      <4>1. \A i \in 0 .. 4 : k + i \in Nat
        BY <2>1
      <4>2. \A i \in 0 .. 4 : Padded(k + i) \in Nat /\ OctetAt(k + i) \in Nat
        BY <1>4, <1>6, <4>1
      <4> QED BY <4>2
    <3>2. /\ at[0] = Padded(k) /\ at[1] = Padded(k + 1) /\ at[2] = Padded(k + 2)
          /\ at[3] = Padded(k + 3) /\ at[4] = Padded(k + 4)
      <4>1. k + 0 = k
        BY <2>1
      <4> QED BY <4>1
    <3>3. /\ octets[1] = OctetAt(k + 1) /\ octets[2] = OctetAt(k + 2)
          /\ octets[3] = OctetAt(k + 3) /\ octets[4] = OctetAt(k + 4)
      OBVIOUS
    <3> HIDE DEF at, octets
    <3>4. at[4] = (at[0] + (((octets[1] * Radix + octets[2]) * Radix + octets[3]) * Radix + octets[4])) % Modulus
      BY <2>8, <2>9, <2>10, <2>11, <3>1, <3>2, <3>3, FourOctets
    <3> QED BY <3>2, <3>3, <3>4
  <2>13. of[n + 1] = Padded(4 * (n + 1))
    BY <2>1, <2>4, <2>5, <2>6, <2>12
  <2> QED BY <2>1, <2>13
<1>11. 0 .. words \subseteq T
  <2> HIDE DEF T
  <2> QED BY <1>3, <1>9, <1>10, BoundedInduction
<1>12. of[words] = Padded(4 * words)
  <2>1. words \in 0 .. words
    BY <1>3
  <2>2. words \in T
    <3> HIDE DEF T
    <3> QED BY <1>11, <2>1
  <2> QED BY <2>2
<1>13. Padded(4 * words) = after[len]
  BY <1>3 DEF Padded
<1> QED BY <1>1, <1>2, <1>12, <1>13

(* The checksum of zeros is zero.                                          *)
LEMMA ZerosCount ==
  ASSUME NEW f \in Seq(Nat), \A k \in 1 .. Len(f) : f[k] = 0
  PROVE  ChecksumCompute(f) = 0
<1> DEFINE len == Len(f)
<1>1. PICK after : Adds(0, 0, f, after) /\ ChecksumCompute(f) = after[len]
  BY ComputeAdds
<1>2. len \in Nat
  BY LenProperties
<1> DEFINE T == {n \in 0 .. len : after[n] = 0}
<1>3. 0 \in T
  BY <1>1, <1>2 DEF Adds
<1>4. ASSUME NEW n \in 0 .. len, n \in T, n < len
      PROVE  n + 1 \in T
  <2>1. n + 1 \in 1 .. len /\ n + 1 \in 0 .. len /\ (n + 1) - 1 = n /\ 0 + (n + 1) = n + 1 /\ n + 1 \in Nat /\ n + 1 > 0
    BY <1>2, <1>4
  <2>2. after[n + 1] = (after[n] + f[n + 1] * Worth(n + 1)) % Modulus
    BY <1>1, <2>1 DEF Adds
  <2>3. Worth(n + 1) \in Nat
    BY <2>1, WorthType
  <2>4. after[n] + f[n + 1] * Worth(n + 1) = 0
    BY <1>4, <2>1, <2>3
  <2>5. after[n + 1] = (0 % Modulus)
    BY <2>2, <2>4
  <2>6. (0 % Modulus) = 0
    BY SumType
  <2> QED BY <2>1, <2>5, <2>6
<1>5. 0 .. len \subseteq T
  <2> HIDE DEF T
  <2> QED BY <1>2, <1>3, <1>4, BoundedInduction
<1>6. len \in 0 .. len
  BY <1>2
<1>7. len \in T
  <2> HIDE DEF T
  <2> QED BY <1>5, <1>6
<1> QED BY <1>1, <1>7

(* One octet tells two files apart: the difference it makes is less than   *)
(* a whole word.                                                           *)
LEMMA OneOctetTells ==
  ASSUME NEW f \in Seq(OctetValue), NEW k \in DOMAIN f, NEW octet \in OctetValue,
         ChecksumCompute([f EXCEPT ![k] = octet]) = ChecksumCompute(f)
  PROVE  octet = f[k]
<1> DEFINE len == Len(f)
           z == [f EXCEPT ![k] = 0]
           g == [f EXCEPT ![k] = octet]
<1>1. /\ Radix \in Nat /\ Radix > 1 /\ OctetValue \subseteq Nat /\ 0 \in OctetValue
      /\ \A v \in OctetValue : v <= Radix - 1
  BY RadixAssumption DEF RadixAssumption, OctetValue
<1>2. len \in Nat /\ DOMAIN f = 1 .. len /\ f \in [1 .. len -> OctetValue] /\ k \in 1 .. len
  BY LenProperties
<1>3. /\ z \in [1 .. len -> Nat] /\ g \in [1 .. len -> Nat] /\ f \in [1 .. len -> Nat]
  BY <1>1, <1>2
<1>4. /\ z[k] = 0 /\ g[k] = octet
      /\ \A n \in 1 .. len : n # k => g[n] = z[n] /\ f[n] = z[n]
  BY <1>2
<1> HIDE DEF z, g
<1>5. \A h \in [1 .. len -> Nat] : h \in Seq(Nat) /\ Len(h) = len
  BY <1>2
<1> HIDE DEF len
<1>6. z \in Seq(Nat) /\ g \in Seq(Nat) /\ f \in Seq(Nat) /\ Len(z) = len /\ Len(g) = len /\ Len(f) = len
  BY <1>3, <1>5
<1>7. /\ k \in 1 .. Len(z) /\ Len(g) = Len(z) /\ Len(f) = Len(z)
      /\ \A n \in 1 .. Len(z) : n # k => g[n] = z[n]
      /\ \A n \in 1 .. Len(z) : n # k => f[n] = z[n]
  BY <1>2, <1>4, <1>6
<1>8. ChecksumCompute(g) = (ChecksumCompute(z) + octet * Worth(k)) % Modulus
  <2>1. octet \in Nat /\ g[k] = z[k] + octet
    BY <1>1, <1>4
  <2> QED BY <1>6, <1>7, <2>1, PointUpdate
<1>9. ChecksumCompute(f) = (ChecksumCompute(z) + f[k] * Worth(k)) % Modulus
  <2>1. f[k] \in Nat
    BY <1>2, <1>3
  <2>2. f[k] = z[k] + f[k]
    BY <1>4, <2>1
  <2> QED BY <1>6, <1>7, <2>1, <2>2, PointUpdate
<1> DEFINE sum == ChecksumCompute(z)
           worth == Worth(k)
           a == octet
           b == f[k]
<1>10. sum \in Nat /\ (sum + a * worth) % Modulus = (sum + b * worth) % Modulus
  BY <1>6, <1>8, <1>9, UpdateType, SumType DEF ChecksumCompute, g
<1>11. a \in 0 .. Radix - 1 /\ b \in 0 .. Radix - 1
  BY <1>2 DEF OctetValue
<1>12. worth \in Nat /\ worth > 0 /\ Radix * worth <= Modulus
  <2>1. (k - 1) % 4 \in 0 .. 3
    BY <1>2
  <2>2. worth = Weight[0] \/ worth = Weight[1] \/ worth = Weight[2] \/ worth = Weight[3]
    BY <2>1 DEF Worth
  <2> DEFINE two == Radix * Radix
             three == two * Radix
             four == three * Radix
  <2>3. two \in Nat /\ two >= Radix
    BY <1>1
  <2>4. three \in Nat /\ three >= two
    <3> HIDE DEF two
    <3> QED BY <1>1, <2>3
  <2>5. four \in Nat /\ four >= three
    <3> HIDE DEF three
    <3> QED BY <1>1, <2>4, SMTT(40)
  <2>6. Modulus = four /\ Weight[0] = three /\ Weight[1] = two /\ Weight[2] = Radix /\ Weight[3] = 1
    BY Weights DEF Modulus
  <2>7. Radix * two = three /\ Radix * three = four /\ Radix * Radix = two /\ Radix * 1 = Radix
    <3>1. Radix * Radix = two /\ Radix * 1 = Radix
      BY <1>1
    <3> HIDE DEF two
    <3>2. Radix * two = three
      BY <1>1, <2>3
    <3> HIDE DEF three
    <3>3. Radix * three = four
      BY <1>1, <2>4
    <3> QED BY <3>1, <3>2, <3>3
  <2> HIDE DEF two, three, four, worth
  <2> DEFINE top == Radix * worth
  <2>8. /\ Radix \in Nat /\ Radix > 1 /\ Modulus = four
        /\ \/ worth = three /\ top = four
           \/ worth = two /\ top = three
           \/ worth = Radix /\ top = two
           \/ worth = 1 /\ top = Radix
    <3>1. Radix \in Nat /\ Radix > 1
      BY <1>1
    <3>2. worth = three \/ worth = two \/ worth = Radix \/ worth = 1
      BY <2>2, <2>6, Zenon
    <3>3. /\ worth = three => top = four
          /\ worth = two => top = three
          /\ worth = Radix => top = two
          /\ worth = 1 => top = Radix
      BY <2>7, Zenon
    <3>4. Modulus = four
      BY <2>6
    <3> HIDE DEF top
    <3> QED BY <3>1, <3>2, <3>3, <3>4
  <2> HIDE DEF top
  <2>9. worth \in Nat /\ worth > 0 /\ top <= Modulus
    BY <2>3, <2>4, <2>5, <2>8
  <2> QED BY <2>9 DEF top
<1> HIDE DEF sum, worth, a, b
<1> DEFINE x == sum + a * worth
           y == sum + b * worth
<1>13. /\ x \in Int /\ y \in Int /\ x - y = (a - b) * worth /\ y - x = (b - a) * worth
  BY <1>10, <1>11, <1>12, SMTT(40)
<1>14. Modulus \in Nat /\ Modulus > 0
  BY Weights
<1>15. x - y < Modulus /\ y - x < Modulus
  <2>1. a - b \in Int /\ b - a \in Int /\ a - b <= Radix - 1 /\ b - a <= Radix - 1
    BY <1>1, <1>11
  <2>2. ASSUME NEW d \in Int, d <= Radix - 1 PROVE d * worth < Modulus
    <3>1. d * worth <= (Radix - 1) * worth
      <4> DEFINE e == (Radix - 1) - d
      <4>1. e \in Nat /\ worth \in Nat
        BY <1>1, <1>12, <2>2
      <4>2. (Radix - 1) * worth = d * worth + e * worth
        BY <1>1, <1>12
      <4> HIDE DEF e
      <4>3. e * worth \in Nat
        BY ONLY <4>1, ProductType
      <4>4. d * worth \in Int
        BY <1>12
      <4> QED BY <4>2, <4>3, <4>4
    <3>2. (Radix - 1) * worth = Radix * worth - worth
      BY <1>1, <1>12
    <3>3. d * worth \in Int /\ Radix * worth \in Int
      BY <1>1, <1>12
    <3> DEFINE dw == d * worth
               rw == Radix * worth
               ew == (Radix - 1) * worth
    <3>4. dw <= ew /\ ew = rw - worth /\ dw \in Int /\ rw \in Int /\ rw <= Modulus
      BY <1>12, <3>1, <3>2, <3>3
    <3> HIDE DEF dw, rw, ew
    <3>5. dw < Modulus
      BY <1>12, <1>14, <3>4
    <3> QED BY <3>5 DEF dw
  <2> QED BY <1>13, <2>1, <2>2
<1>16. (x % Modulus) = (y % Modulus)
  BY <1>10
<1>17. x = y
  <2> HIDE DEF x, y
  <2> QED BY <1>13, <1>14, <1>15, <1>16, RemainderTells
<1>18. a = b
  <2>1. (a - b) * worth = 0
    BY <1>13, <1>17
  <2>2. a - b \in Int /\ (a - b = 0 => a = b)
    BY <1>11
  <2> DEFINE d == a - b
  <2> HIDE DEF d
  <2>3. d = 0
    BY <1>12, <2>1, <2>2 DEF d
  <2> QED BY <2>2, <2>3 DEF d
<1> QED BY <1>18 DEF a, b

-----------------------------------------------------------------------------
(* The inductive invariant                                                 *)

(* The segments that have not arrived are inside the file and do not       *)
(* overlap.                                                                *)
Apart ==
  /\ \A s \in pending :
       /\ s \in [offset : Nat, len : Nat]
       /\ s.offset + s.len <= Len(file)
  /\ \A s \in pending, t \in pending :
       s # t => s.offset + s.len <= t.offset \/ t.offset + t.len <= s.offset

(* RunningIsWordSum alone is not inductive: that a segment adds what is    *)
(* missing of the file takes that no other segment has its octets, and     *)
(* that the fall-back leaves a zero, that no type was in use before it.    *)
SegmentsIInv ==
  /\ file \in Seq(OctetValue)
  /\ carried \in Versions(file)
  /\ running \in Checksum
  /\ refused => ~ ChecksumTypeSupported(type)
  /\ Apart
  /\ RunningIsWordSum

LEMMA Octets ==
  /\ OctetValue \subseteq Nat
  /\ 0 \in OctetValue
BY RadixAssumption DEF RadixAssumption, OctetValue

(* What arrives is a file of the same size.                                *)
LEMMA VersionType ==
  ASSUME NEW f \in Seq(OctetValue), NEW g \in Versions(f)
  PROVE  /\ g \in Seq(OctetValue) /\ g \in Seq(Nat)
         /\ Len(g) = Len(f) /\ DOMAIN g = 1 .. Len(f)
<1>1. Len(f) \in Nat /\ DOMAIN f = 1 .. Len(f) /\ f \in [1 .. Len(f) -> OctetValue]
  BY LenProperties
<1>2. g \in [1 .. Len(f) -> OctetValue]
  <2>1. CASE g = f
    BY <1>1, <2>1
  <2>2. CASE g # f
    <3>1. PICK k \in DOMAIN f, octet \in OctetValue : g = [f EXCEPT ![k] = octet]
      BY <2>2 DEF Versions
    <3> QED BY <1>1, <3>1
  <2> QED BY <2>1, <2>2
<1> DEFINE n == Len(f)
<1> HIDE DEF n
<1>3. n \in Nat /\ g \in [1 .. n -> OctetValue] /\ g \in [1 .. n -> Nat]
  BY <1>1, <1>2, Octets DEF n
<1>4. g \in Seq(OctetValue) /\ g \in Seq(Nat) /\ Len(g) = n /\ DOMAIN g = 1 .. n
  BY <1>3
<1> QED BY <1>4 DEF n

(* The segments between the cuts of a file are inside it, do not overlap   *)
(* and leave nothing out.                                                  *)
LEMMA CutsPartition ==
  ASSUME NEW f \in Seq(OctetValue), NEW cuts \in SUBSET (0 .. Len(f)), 0 \in cuts, Len(f) \in cuts
  PROVE  /\ \A s \in SegmentsOf(f, cuts) :
              /\ s \in [offset : Nat, len : Nat]
              /\ s.offset + s.len <= Len(f)
         /\ \A s \in SegmentsOf(f, cuts), t \in SegmentsOf(f, cuts) :
              s # t => s.offset + s.len <= t.offset \/ t.offset + t.len <= s.offset
         /\ \A k \in 1 .. Len(f) : \E s \in SegmentsOf(f, cuts) :
              s.offset < k /\ k <= s.offset + s.len
<1> DEFINE size == Len(f)
           NextCut(a) == Min({b \in cuts : b > a})
<1>1. /\ size \in Nat /\ cuts \subseteq Nat /\ cuts \in SUBSET (0 .. size)
      /\ 0 \in cuts /\ size \in cuts /\ \A b \in cuts : b <= size
  BY LenProperties
<1>2. ASSUME NEW a \in cuts, a # size
      PROVE  /\ NextCut(a) \in cuts /\ NextCut(a) > a /\ NextCut(a) \in Nat
             /\ \A b \in cuts : b > a => NextCut(a) <= b
  <2> DEFINE S == {b \in cuts : b > a}
  <2>1. S \in SUBSET Nat /\ size \in S /\ \A b \in S : b \in cuts /\ b > a
    <3>1. size > a
      BY <1>1, <1>2
    <3> QED BY <1>1, <3>1
  <2> HIDE DEF S
  <2>2. \E m \in S : \A k \in S : m <= k
    BY <2>1, LeastElement
  <2>3. Min(S) \in S /\ \A k \in S : Min(S) <= k
    BY <2>2 DEF Min
  <2>4. NextCut(a) = Min(S)
    BY DEF S
  <2>5. \A b \in cuts : b > a => b \in S
    BY DEF S
  <2> HIDE DEF NextCut
  <2> QED BY <1>1, <2>1, <2>3, <2>4, <2>5
<1>3. SegmentsOf(f, cuts) = {[offset |-> a, len |-> NextCut(a) - a] : a \in cuts \ {size}}
  BY DEF SegmentsOf
<1> HIDE DEF size, NextCut
<1>4. ASSUME NEW s \in SegmentsOf(f, cuts)
      PROVE  /\ s \in [offset : Nat, len : Nat] /\ s.offset \in cuts /\ s.offset # size
             /\ s.offset + s.len = NextCut(s.offset) /\ s = [offset |-> s.offset, len |-> s.len]
  <2>1. PICK a \in cuts \ {size} : s = [offset |-> a, len |-> NextCut(a) - a]
    BY <1>3
  <2>2. a \in Nat /\ NextCut(a) \in Nat /\ NextCut(a) > a
    BY <1>1, <1>2
  <2>3. s.offset = a /\ s.len = NextCut(a) - a
    BY <2>1
  <2>4. NextCut(a) - a \in Nat /\ a + (NextCut(a) - a) = NextCut(a)
    BY <2>2
  <2> QED BY <2>1, <2>2, <2>3, <2>4
<1>5. ASSUME NEW s \in SegmentsOf(f, cuts)
      PROVE  s.offset + s.len <= size
  BY <1>1, <1>2, <1>4 DEF size
<1>6. ASSUME NEW s \in SegmentsOf(f, cuts), NEW t \in SegmentsOf(f, cuts), s # t
      PROVE  s.offset + s.len <= t.offset \/ t.offset + t.len <= s.offset
  <2> DEFINE a == s.offset
             b == t.offset
  <2>1. /\ a \in cuts /\ b \in cuts /\ a # size /\ b # size /\ a \in Nat /\ b \in Nat
        /\ a + s.len = NextCut(a) /\ b + t.len = NextCut(b) /\ s.len \in Nat /\ t.len \in Nat
    BY <1>1, <1>4
  <2>2. a # b
    <3>1. ASSUME a = b PROVE FALSE
      <4>1. s.len = t.len
        BY <2>1, <3>1
      <4>2. s = [offset |-> a, len |-> s.len] /\ t = [offset |-> b, len |-> t.len]
        BY <1>4
      <4> QED BY <1>6, <3>1, <4>1, <4>2
    <3> QED BY <3>1
  <2> HIDE DEF a, b
  <2>3. a < b \/ b < a
    BY <2>1, <2>2
  <2>4. a < b => NextCut(a) <= b
    BY <1>2, <2>1
  <2>5. b < a => NextCut(b) <= a
    BY <1>2, <2>1
  <2> QED BY <2>1, <2>3, <2>4, <2>5 DEF a, b
<1>7. ASSUME NEW k \in 1 .. size
      PROVE  \E s \in SegmentsOf(f, cuts) : s.offset < k /\ k <= s.offset + s.len
  <2> DEFINE S == {a \in cuts : a < k}
  <2>1. S \in SUBSET (0 .. size) /\ 0 \in S /\ k \in Nat
    <3>1. k \in Nat /\ 0 < k
      BY <1>1
    <3>2. S \subseteq cuts
      OBVIOUS
    <3>3. 0 \in S
      BY <1>1, <3>1
    <3> HIDE DEF S
    <3> QED BY <1>1, <3>1, <3>2, <3>3
  <2>2. PICK a \in S : \A b \in S : b <= a
    <3> HIDE DEF S
    <3> QED BY <1>1, <2>1, GreatestElement
  <2>3. a \in cuts /\ a < k /\ a # size /\ a \in Nat
    BY <1>1, <1>7
  <2>4. NextCut(a) \in cuts /\ NextCut(a) > a /\ NextCut(a) \in Nat
    BY <1>2, <2>3
  <2>5. k <= NextCut(a)
    <3>1. ~ (NextCut(a) < k)
      BY <2>2, <2>3, <2>4
    <3> QED BY <2>1, <2>4, <3>1
  <2> DEFINE s == [offset |-> a, len |-> NextCut(a) - a]
  <2>6. s \in SegmentsOf(f, cuts)
    BY <1>3, <2>3
  <2>7. s.offset = a /\ s.offset + s.len = NextCut(a)
    BY <2>3, <2>4
  <2> HIDE DEF s
  <2> QED BY <2>3, <2>5, <2>6, <2>7
<1> QED BY <1>4, <1>5, <1>6, <1>7 DEF size


(* Before anything has arrived the sum is that of zeros.                   *)
LEMMA SegmentsInitIInv ==
  ASSUME SegmentsInit PROVE SegmentsIInv
<1> DEFINE size == Len(file)
<1>1. file \in Seq(OctetValue) /\ carried \in Versions(file) /\ size \in Nat
  BY SegmentsAssumption, LenProperties DEF SegmentsInit, SegmentsAssumption
<1>2. PICK cuts \in SUBSET (1 .. size - 1), empty \in SUBSET {size} :
        pending = SegmentsOf(file, cuts \cup {0, size}) \cup {[offset |-> a, len |-> 0] : a \in empty}
  BY DEF SegmentsInit
<1> DEFINE pieces == SegmentsOf(file, cuts \cup {0, size})
<1>3. cuts \cup {0, size} \in SUBSET (0 .. size) /\ 0 \in cuts \cup {0, size} /\ size \in cuts \cup {0, size}
  <2>1. \A c \in cuts : c \in 0 .. size
    BY <1>1
  <2>2. 0 \in 0 .. size /\ size \in 0 .. size
    BY <1>1
  <2> HIDE DEF size
  <2> QED BY <2>1, <2>2
<1>4. /\ \A s \in pieces : s \in [offset : Nat, len : Nat] /\ s.offset + s.len <= size
      /\ \A s \in pieces, t \in pieces :
           s # t => s.offset + s.len <= t.offset \/ t.offset + t.len <= s.offset
      /\ \A k \in 1 .. size : \E s \in pieces : s.offset < k /\ k <= s.offset + s.len
  <2> DEFINE all == cuts \cup {0, size}
  <2>1. all \in SUBSET (0 .. size) /\ 0 \in all /\ size \in all
    BY <1>3
  <2> HIDE DEF all
  <2>2. /\ \A s \in SegmentsOf(file, all) : s \in [offset : Nat, len : Nat] /\ s.offset + s.len <= size
        /\ \A s \in SegmentsOf(file, all), t \in SegmentsOf(file, all) :
             s # t => s.offset + s.len <= t.offset \/ t.offset + t.len <= s.offset
        /\ \A k \in 1 .. size : \E s \in SegmentsOf(file, all) : s.offset < k /\ k <= s.offset + s.len
    BY <1>1, <2>1, CutsPartition
  <2> QED BY <2>2 DEF all
<1>5. \A s \in pending : s \in pieces \/ s = [offset |-> size, len |-> 0]
  BY <1>2
<1>6. pieces \subseteq pending
  BY <1>2
<1> HIDE DEF size, pieces
<1>7. Apart
  <2>1. ASSUME NEW s \in pending
        PROVE  s \in [offset : Nat, len : Nat] /\ s.offset + s.len <= size
    BY <1>1, <1>4, <1>5
  <2>2. ASSUME NEW s \in pending, NEW t \in pending, s # t
        PROVE  s.offset + s.len <= t.offset \/ t.offset + t.len <= s.offset
    <3>1. CASE s \in pieces /\ t \in pieces
      BY <1>4, <2>2, <3>1
    <3>2. CASE s \notin pieces
      <4>1. s.offset = size /\ t.offset + t.len <= size
        BY <1>5, <2>1, <3>2
      <4> QED BY <4>1
    <3>3. CASE t \notin pieces
      <4>1. t.offset = size /\ s.offset + s.len <= size
        BY <1>5, <2>1, <3>3
      <4> QED BY <4>1
    <3> QED BY <3>1, <3>2, <3>3
  <2> QED BY <2>1, <2>2 DEF Apart, size
<1>8. running = 0 /\ refused = FALSE /\ running \in Checksum
  BY SumType DEF SegmentsInit
<1>9. DOMAIN carried = 1 .. size /\ carried \in Seq(Nat)
  BY <1>1, VersionType DEF size
<1>10. WordSum(SoFar) = 0
  <2> DEFINE f == SoFar
  <2>1. f = [k \in 1 .. size |->
               IF \E s \in pending : s.offset < k /\ k <= s.offset + s.len THEN 0 ELSE carried[k]]
    BY <1>9 DEF SoFar
  <2>2. \A k \in 1 .. size : \E s \in pending : s.offset < k /\ k <= s.offset + s.len
    BY <1>4, <1>6
  <2> HIDE DEF f
  <2>3. f = [k \in 1 .. size |-> 0]
    BY <2>1, <2>2
  <2>4. size \in Nat
    BY <1>1 DEF size
  <2>5. f \in Seq(Nat) /\ Len(f) = size /\ \A k \in 1 .. size : f[k] = 0
    BY <2>3, <2>4
  <2>6. ChecksumCompute(f) = 0
    BY <2>5, ZerosCount
  <2>7. WordSum(f) = 0
    BY <2>5, <2>6, WordSumIsCompute
  <2> QED BY <2>7 DEF f
<1>11. RunningIsWordSum
  BY <1>8, <1>10 DEF RunningIsWordSum
<1> QED BY <1>1, <1>7, <1>8, <1>11 DEF SegmentsIInv

(* What folding in a segment with the modular checksum does.               *)
LEMMA FoldAdds ==
  ASSUME SegmentsIInv, NEW segment \in pending, type = CFDP_CHECKSUM_MODULAR,
         running' = ChecksumUpdate(running, segment.offset,
                       SubSeq(carried, segment.offset + 1, segment.offset + segment.len)),
         pending' = pending \ {segment}, UNCHANGED <<file, carried, type>>
  PROVE  running' \in Checksum /\ running' = WordSum(SoFar')
<1> DEFINE size == Len(file)
           offset == segment.offset
           len == segment.len
           data == SubSeq(carried, offset + 1, offset + len)
           f == SoFar
           g == SoFar'
           Awaited(k) == \E s \in pending : s.offset < k /\ k <= s.offset + s.len
           StillAwaited(k) == \E s \in pending' : s.offset < k /\ k <= s.offset + s.len
<1>1. carried \in Seq(Nat) /\ DOMAIN carried = 1 .. size /\ Len(carried) = size /\ size \in Nat
  BY VersionType, LenProperties DEF SegmentsIInv
<1>2. offset \in Nat /\ len \in Nat /\ offset + len <= size
  BY DEF SegmentsIInv, Apart
<1>3. \A k \in 1 .. size : carried[k] \in Nat
  BY <1>1, ElementOfSeq
<1> HIDE DEF size, offset, len
<1>4. data \in Seq(Nat) /\ Len(data) = len /\ \A i \in 1 .. len : data[i] = carried[offset + i]
  <2>1. offset + 1 \in 1 .. size + 1 /\ offset + len \in offset .. size
    BY <1>1, <1>2
  <2>2. \A i \in 1 .. len : offset + i \in 1 .. size
    BY <1>1, <1>2
  <2>3. (offset + len) + 1 - (offset + 1) = len
    BY <1>2
  <2>4. data = [i \in 1 .. len |-> carried[(offset + 1) + i - 1]]
    BY <1>1, <1>2
  <2>5. \A i \in 1 .. len : (offset + 1) + i - 1 = offset + i
    BY <1>2
  <2>6. data = [i \in 1 .. len |-> carried[offset + i]]
    BY <2>4, <2>5
  <2> HIDE DEF data
  <2>7. data \in [1 .. len -> Nat]
    BY <1>3, <2>2, <2>6
  <2>8. \A i \in 1 .. len : data[i] = carried[offset + i]
    BY <2>6
  <2> QED BY <1>2, <2>7, <2>8
<1>5. f = [k \in 1 .. size |-> IF Awaited(k) THEN 0 ELSE carried[k]]
  BY <1>1 DEF SoFar
<1>6. g = [k \in 1 .. size |-> IF StillAwaited(k) THEN 0 ELSE carried[k]]
  BY <1>1 DEF SoFar
<1>7. ASSUME NEW k \in 1 .. size
      PROVE  IF offset < k /\ k <= offset + len
             THEN Awaited(k) /\ ~ StillAwaited(k) ELSE StillAwaited(k) <=> Awaited(k)
  <2>1. CASE offset < k /\ k <= offset + len
    <3>1. Awaited(k)
      BY <2>1 DEF offset, len
    <3>2. ASSUME NEW s \in pending, s # segment, s.offset < k /\ k <= s.offset + s.len PROVE FALSE
      <4>1. s.offset \in Nat /\ s.len \in Nat /\ k \in Nat
        BY <1>1 DEF SegmentsIInv, Apart
      <4>2. s.offset + s.len <= offset \/ offset + len <= s.offset
        BY <3>2 DEF SegmentsIInv, Apart, offset, len
      <4> QED BY <1>2, <2>1, <3>2, <4>1, <4>2
    <3>3. ~ StillAwaited(k)
      BY <3>2
    <3> QED BY <2>1, <3>1, <3>3
  <2>2. CASE ~ (offset < k /\ k <= offset + len)
    <3>1. StillAwaited(k) => Awaited(k)
      OBVIOUS
    <3>2. Awaited(k) => StillAwaited(k)
      BY <2>2 DEF offset, len
    <3> QED BY <2>2, <3>1, <3>2
  <2> QED BY <2>1, <2>2
<1> HIDE DEF Awaited, StillAwaited, data
<1>8. f \in Seq(Nat) /\ g \in Seq(Nat) /\ Len(f) = size /\ Len(g) = Len(f)
  <2> HIDE DEF f, g
  <2>1. f \in [1 .. size -> Nat] /\ g \in [1 .. size -> Nat]
    BY <1>3, <1>5, <1>6
  <2> QED BY <1>1, <2>1
<1> HIDE DEF f, g
<1>9. ASSUME NEW k \in 1 .. Len(f)
      PROVE  IF offset < k /\ k <= offset + Len(data)
             THEN g[k] = f[k] + data[k - offset] ELSE g[k] = f[k]
  <2>1. k \in 1 .. size
    BY <1>8
  <2>2. CASE offset < k /\ k <= offset + len
    <3>1. k - offset \in 1 .. len /\ offset + (k - offset) = k
      BY <1>1, <1>2, <2>1, <2>2
    <3>2. data[k - offset] = carried[k]
      BY <1>4, <3>1
    <3>3. f[k] = 0 /\ g[k] = carried[k]
      BY <1>5, <1>6, <1>7, <2>1, <2>2
    <3> QED BY <1>3, <1>4, <2>1, <2>2, <3>2, <3>3
  <2>3. CASE ~ (offset < k /\ k <= offset + len)
    <3>1. g[k] = f[k]
      BY <1>5, <1>6, <1>7, <2>1, <2>3
    <3> QED BY <1>4, <2>3, <3>1
  <2> QED BY <2>2, <2>3
<1>10. ChecksumUpdate(ChecksumCompute(f), offset, data) = ChecksumCompute(g)
  <2>1. offset + Len(data) <= Len(f)
    BY <1>2, <1>4, <1>8
  <2> QED BY <1>2, <1>4, <1>8, <1>9, <2>1, SegmentAdds, ZenonT(60)
<1>11. running = ChecksumCompute(f) /\ running \in Checksum
  BY <1>8, WordSumIsCompute DEF SegmentsIInv, RunningIsWordSum, f
<1>12. running' = ChecksumCompute(g)
  BY <1>10, <1>11 DEF data, offset, len
<1>13. running' = WordSum(g)
  BY <1>8, <1>12, WordSumIsCompute
<1>14. running' \in Checksum
  BY <1>8, <1>12, UpdateType, SumType DEF ChecksumCompute
<1> QED BY <1>13, <1>14 DEF g

(* Every step keeps it.                                                    *)
LEMMA SegmentsNextIInv ==
  ASSUME SegmentsIInv, [SegmentsNext]_segmentsVars PROVE SegmentsIInv'
<1>1. CASE UNCHANGED segmentsVars
  BY <1>1 DEF segmentsVars, SegmentsIInv, Apart, RunningIsWordSum, SoFar
<1>2. CASE FallBack
  <2>1. /\ file' = file /\ carried' = carried /\ pending' = pending /\ running' = running
        /\ type' = CFDP_CHECKSUM_NULL /\ refused' = FALSE /\ refused
    BY <1>2 DEF FallBack
  <2>2. running = 0
    BY <2>1 DEF SegmentsIInv, RunningIsWordSum, ChecksumTypeSupported
  <2>3. RunningIsWordSum'
    BY <2>1, <2>2 DEF RunningIsWordSum, CFDP_CHECKSUM_MODULAR, CFDP_CHECKSUM_NULL
  <2>4. Apart'
    BY <2>1 DEF SegmentsIInv, Apart
  <2> QED BY <2>1, <2>3, <2>4 DEF SegmentsIInv
<1>3. ASSUME NEW segment \in pending, FoldSegment(segment) PROVE SegmentsIInv'
  <2> DEFINE data == SubSeq(carried, segment.offset + 1, segment.offset + segment.len)
  <2>1. /\ file' = file /\ carried' = carried /\ type' = type
        /\ running' = UpdateByType(type, running, segment.offset, data)
        /\ refused' = ~ ChecksumTypeSupported(type)
        /\ pending' = IF refused' THEN pending ELSE pending \ {segment}
    BY <1>3 DEF FoldSegment
  <2> HIDE DEF data
  <2>2. Apart'
    BY <2>1 DEF SegmentsIInv, Apart
  <2>3. refused' => ~ ChecksumTypeSupported(type')
    BY <2>1
  <2>4. CASE type = CFDP_CHECKSUM_MODULAR
    <3>1. ~ refused' /\ pending' = pending \ {segment}
      BY <2>1, <2>4 DEF ChecksumTypeSupported
    <3>2. running' = ChecksumUpdate(running, segment.offset, data)
      BY <2>1, <2>4 DEF UpdateByType, ChecksumTypeSupported, CFDP_CHECKSUM_MODULAR, CFDP_CHECKSUM_NULL
    <3>3. running' \in Checksum /\ running' = WordSum(SoFar')
      BY <2>1, <2>4, <3>1, <3>2, FoldAdds DEF data
    <3>4. RunningIsWordSum'
      BY <2>1, <2>4, <3>3 DEF RunningIsWordSum
    <3> QED BY <2>1, <2>2, <2>3, <3>3, <3>4 DEF SegmentsIInv
  <2>5. CASE type # CFDP_CHECKSUM_MODULAR
    <3>1. running = 0
      BY <2>5 DEF SegmentsIInv, RunningIsWordSum
    <3>2. running' = 0
      BY <2>1, <2>5, <3>1 DEF UpdateByType, ChecksumTypeSupported
    <3>3. RunningIsWordSum' /\ running' \in Checksum
      BY <2>1, <2>5, <3>2, SumType DEF RunningIsWordSum
    <3> QED BY <2>1, <2>2, <2>3, <3>3 DEF SegmentsIInv
  <2> QED BY <2>4, <2>5
<1> QED BY <1>1, <1>2, <1>3 DEF SegmentsNext

(* When nothing is missing the running checksum is that of what has        *)
(* arrived, and one octet tells that apart from what was sent.             *)
LEMMA IInvDecides ==
  ASSUME SegmentsIInv PROVE EofChecksumDecides
<1> SUFFICES ASSUME pending = {}, type = CFDP_CHECKSUM_MODULAR
             PROVE  running = ChecksumCompute(file) <=> carried = file
  BY DEF EofChecksumDecides
<1>1. carried \in Seq(Nat) /\ DOMAIN carried = 1 .. Len(file) /\ carried \in [1 .. Len(file) -> Nat]
  BY VersionType, LenProperties DEF SegmentsIInv
<1>2. SoFar = carried
  BY <1>1 DEF SoFar
<1>3. running = ChecksumCompute(carried)
  BY <1>1, <1>2, WordSumIsCompute DEF SegmentsIInv, RunningIsWordSum
<1>4. ASSUME ChecksumCompute(carried) = ChecksumCompute(file), carried # file PROVE FALSE
  <2>1. PICK k \in DOMAIN file, octet \in OctetValue : carried = [file EXCEPT ![k] = octet]
    BY <1>4 DEF SegmentsIInv, Versions
  <2>2. octet = file[k]
    BY <1>4, <2>1, OneOctetTells DEF SegmentsIInv
  <2>3. file \in [1 .. Len(file) -> OctetValue]
    BY LenProperties DEF SegmentsIInv
  <2>4. carried = file
    BY <2>1, <2>2, <2>3
  <2> QED BY <1>4, <2>4
<1> QED BY <1>3, <1>4

-----------------------------------------------------------------------------
(* The theorems about the segments of a file                               *)

(* The segments that are missing never overlap, and the running checksum   *)
(* is that of what is not missing.                                         *)
THEOREM SegmentsInvariance == SegmentsSpec => []SegmentsIInv
<1>1. SegmentsInit => SegmentsIInv
  BY SegmentsInitIInv
<1>2. SegmentsIInv /\ [SegmentsNext]_segmentsVars => SegmentsIInv'
  BY SegmentsNextIInv
<1> QED BY <1>1, <1>2, PTL DEF SegmentsSpec

(* cfdp_checksum_update_by_type, called once per segment in any order and  *)
(* at any alignment, leaves the sum of the four-octet words of the file as *)
(* it has arrived so far, for files of any length and content.             *)
THEOREM RunsAsWordSum == SegmentsSpec => []RunningIsWordSum
<1>1. SegmentsIInv => RunningIsWordSum
  BY DEF SegmentsIInv
<1> QED BY <1>1, SegmentsInvariance, PTL

(* In the end it equals cfdp_checksum_compute of the file that was sent if *)
(* and only if no octet of it was changed.                                 *)
THEOREM DecidesAtEof == SegmentsSpec => []EofChecksumDecides
<1>1. SegmentsIInv => EofChecksumDecides
  BY IInvDecides
<1> QED BY <1>1, SegmentsInvariance, PTL

-----------------------------------------------------------------------------
(* What the users of a transfer encode and decode                          *)

LEMMA FileOctets ==
  /\ File \in Seq(Octet) /\ File \in Seq(Nat)
  /\ UINT16_MAX \in Nat /\ Len(File) \in Nat /\ Len(File) > 0 /\ Len(File) <= UINT16_MAX
  /\ DOMAIN File = 1 .. Len(File) /\ \A k \in 1 .. Len(File) : File[k] \in Octet
  /\ Large \in {0, 1} /\ BufLen \in Nat
<1>1. File \in Seq(OctetValue) /\ Radix \in Nat /\ Radix <= 256
  BY TransferAssumption, RadixAssumption DEF TransferAssumption, RadixAssumption
<1>2. OctetValue \subseteq Octet /\ Octet \subseteq Nat
  BY <1>1 DEF OctetValue, Octet
<1>3. File \in Seq(Octet) /\ File \in Seq(Nat)
  <2>1. Len(File) \in Nat /\ File \in [1 .. Len(File) -> OctetValue]
    BY <1>1, LenProperties
  <2>2. File \in [1 .. Len(File) -> Octet] /\ File \in [1 .. Len(File) -> Nat]
    BY <1>2, <2>1
  <2> QED BY <2>1, <2>2
<1>4. \A k \in 1 .. Len(File) : File[k] \in Octet
  BY <1>3, ElementOfSeq
<1>5. /\ Len(File) \in 1 .. UINT16_MAX /\ Large \in {0, 1} /\ BufLen \in Nat
  BY TransferAssumption DEF TransferAssumption
<1>6. DOMAIN File = 1 .. Len(File) /\ Len(File) \in Nat
  BY <1>3, LenProperties
<1>7. UINT16_MAX \in Nat
  BY SMT DEF UINT16_MAX
<1> QED BY <1>3, <1>4, <1>5, <1>6, <1>7

(* A position in the file is the same number again when it has travelled.  *)
LEMMA NumberTravels ==
  ASSUME NEW n \in 0 .. UINT16_MAX
  PROVE  /\ UInt64Of(n) \in UInt64
         /\ NumberOf(UInt64Of(n)) = n
         /\ Truncated(UInt64Of(n), FileSizeOctets(Large)) = UInt64Of(n)
<1> DEFINE high == n \div 256
           low == n % 256
           zeros == Zeros(6)
           pair == <<high, low>>
           value == UInt64Of(n)
<1>1. high \in Octet /\ low \in Octet /\ high * 256 + low = n
  BY SMTT(40) DEF Octet, UINT16_MAX
<1>2. /\ zeros \in Seq(Octet) /\ Len(zeros) = 6 /\ \A k \in 1 .. 6 : zeros[k] = 0
  BY DEF Zeros, Octet
<1> HIDE DEF high, low, zeros
<1>3. pair \in Seq(Octet) /\ Len(pair) = 2 /\ pair[1] = high /\ pair[2] = low
  BY <1>1
<1>4. value = zeros \o pair
  BY DEF UInt64Of, WriteUint16, zeros, high, low
<1> HIDE DEF pair, value
<1>5. /\ value \in Seq(Octet) /\ Len(value) = 8
      /\ \A k \in 1 .. 8 : value[k] = IF k <= 6 THEN zeros[k] ELSE pair[k - 6]
  <2>1. /\ zeros \o pair \in Seq(Octet) /\ Len(zeros \o pair) = Len(zeros) + Len(pair)
        /\ \A k \in 1 .. Len(zeros) + Len(pair) :
             (zeros \o pair)[k] = IF k <= Len(zeros) THEN zeros[k] ELSE pair[k - Len(zeros)]
    BY ONLY <1>2, <1>3, ConcatProperties
  <2>2. Len(zeros) + Len(pair) = 8
    BY <1>2, <1>3
  <2> QED BY <1>2, <1>4, <2>1, <2>2
<1>6. value[7] = high /\ value[8] = low /\ \A k \in 1 .. 6 : value[k] = 0
  BY <1>2, <1>3, <1>5
<1>7. value \in [1 .. 8 -> Octet]
  <2>1. value \in [1 .. Len(value) -> Octet]
    BY <1>5, LenProperties
  <2> QED BY <1>5, <2>1
<1>8. NumberOf(value) = n
  <2> DEFINE last == SubSeq(value, 7, 8)
  <2>1. last[1] = value[7] /\ last[2] = value[8]
    BY <1>5
  <2> HIDE DEF last
  <2>2. ReadUint16(last) = n
    BY <1>1, <1>6, <2>1 DEF ReadUint16
  <2> QED BY <2>2 DEF NumberOf, last
<1>9. ASSUME NEW width \in {4, 8}
      PROVE  Truncated(value, width) = value
  <2> DEFINE kept == WriteUint(value, width)
             lead == Zeros(8 - width)
             read == lead \o kept
  <2>1. kept \in Seq(Octet) /\ Len(kept) = width /\ \A k \in 1 .. width : kept[k] = value[8 - width + k]
    <3>1. kept \in Seq(Octet) /\ Len(kept) = width
      <4>1. value \in UInt64 /\ width \in 1 .. 8
        BY <1>7 DEF UInt64
      <4> QED BY ONLY <4>1, WriteUintType
    <3>2. \A k \in 1 .. width : kept[k] = value[8 - width + k]
      BY <1>5 DEF WriteUint
    <3> QED BY <3>1, <3>2
  <2>2. lead \in Seq(Octet) /\ Len(lead) = 8 - width /\ \A k \in 1 .. 8 - width : lead[k] = 0
    BY DEF Zeros, Octet
  <2>3. Truncated(value, width) = read
    BY <2>1 DEF Truncated, ReadUint
  <2> HIDE DEF kept, lead
  <2>4. /\ read \in Seq(Octet) /\ Len(read) = Len(lead) + Len(kept)
        /\ \A k \in 1 .. Len(lead) + Len(kept) :
             read[k] = IF k <= Len(lead) THEN lead[k] ELSE kept[k - Len(lead)]
    BY ONLY <2>1, <2>2, ConcatProperties, ZenonT(60)
  <2> HIDE DEF read
  <2>5. Len(read) = 8 /\ \A k \in 1 .. 8 : read[k] = IF k <= 8 - width THEN lead[k] ELSE kept[k - (8 - width)]
    BY <2>1, <2>2, <2>4
  <2>6. ASSUME NEW k \in 1 .. 8 PROVE read[k] = value[k]
    <3>1. CASE k <= 8 - width
      <4>1. k \in 1 .. 8 - width /\ k \in 1 .. 6
        BY <3>1
      <4> QED BY <1>6, <2>2, <2>5, <3>1, <4>1
    <3>2. CASE ~ (k <= 8 - width)
      <4>1. k - (8 - width) \in 1 .. width /\ 8 - width + (k - (8 - width)) = k
        BY <3>2
      <4> QED BY <2>1, <2>5, <3>2, <4>1
    <3> QED BY <3>1, <3>2
  <2>7. read \in [1 .. 8 -> Octet]
    BY <2>4, <2>5, LenProperties
  <2> QED BY <1>7, <2>3, <2>6, <2>7
<1>10. FileSizeOctets(Large) \in {4, 8}
  BY DEF FileSizeOctets
<1> QED BY <1>7, <1>8, <1>9, <1>10, SMTT(40) DEF UInt64, value

(* The octets a range of the file has.                                     *)
OctetsOf(range) == Slice(File, range.start, range.end)

LEMMA OctetsOfType ==
  ASSUME NEW range \in Ranges
  PROVE  /\ range.start \in 0 .. UINT16_MAX /\ range.end \in 1 .. UINT16_MAX /\ range.start < range.end
         /\ range.end <= Len(File)
         /\ OctetsOf(range) \in Seq(Octet) /\ Len(OctetsOf(range)) = range.end - range.start
         /\ \A k \in 1 .. range.end - range.start : OctetsOf(range)[k] = File[range.start + k]
<1> DEFINE start == range.start
           end == range.end
           octets == OctetsOf(range)
<1>1. File \in Seq(Octet) /\ Len(File) \in Nat /\ UINT16_MAX \in Nat /\ Len(File) <= UINT16_MAX
  BY FileOctets
<1>2. start \in 0 .. Len(File) - 1 /\ end \in 1 .. Len(File) /\ start < end
  BY DEF Ranges, Offsets
<1> HIDE DEF start, end
<1>6. start \in Nat /\ end \in Nat /\ start <= end /\ end <= Len(File) /\ end - start \in Nat
  BY <1>1, <1>2
<1>3. octets = Slice(File, start, end)
  BY DEF OctetsOf, start, end
<1> HIDE DEF octets
<1>4. octets \in Seq(Octet) /\ Len(octets) = end - start
  <2>1. Slice(File, start, end) \in Seq(Octet) /\ Len(Slice(File, start, end)) = end - start
    BY ONLY <1>1, <1>6, SliceType
  <2> QED BY <1>3, <2>1
<1>5. ASSUME NEW k \in 1 .. end - start PROVE octets[k] = File[start + k]
  <2>1. octets[k] = File[start + 1 + k - 1]
    BY <1>1, <1>2, <1>3 DEF Slice
  <2>2. start + 1 + k - 1 = start + k
    BY <1>2
  <2> QED BY <2>1, <2>2
<1>7. start \in 0 .. UINT16_MAX /\ end \in 1 .. UINT16_MAX
  BY <1>1, <1>2
<1> QED BY <1>2, <1>4, <1>5, <1>6, <1>7 DEF start, end, octets

(* build_file_data, then cfdp_file_data_deserialize.                       *)
LEMMA SegmentReadBack ==
  ASSUME NEW segment \in Segments
  PROVE  /\ FileDataOf[segment] \in Seq(Octet) \ {<< >>}
         /\ SegmentIn[FileDataOf[segment]] = [start |-> segment.start, data |-> OctetsOf(segment)]
<1> DEFINE start == segment.start
           len == segment.end - segment.start
           data == OctetsOf(segment)
           fd == [NoFileData EXCEPT !.offset = UInt64Of(start), !.file_data = PointerTo(data),
                                    !.file_data_len = len]
           octets == FileDataSerialize(fd, Large, ABSENT, BufLen)
           read == FileDataDeserialize(octets, Large, ABSENT, NoFileData)
<1>1. /\ segment \in Ranges /\ start \in 0 .. UINT16_MAX /\ len \in Nat /\ len > 0
      /\ data \in Seq(Octet) /\ Len(data) = len
      /\ FileSizeOctets(Large) + len <= BufLen
  <2>1. segment \in Ranges /\ len <= SegmentLen
    BY DEF Segments
  <2>2. /\ start \in 0 .. UINT16_MAX /\ segment.end \in 1 .. UINT16_MAX /\ start < segment.end
        /\ data \in Seq(Octet) /\ Len(data) = len
    BY <2>1, OctetsOfType
  <2>3. SegmentLen \in Nat /\ BufLen \in Nat /\ BufLen >= FileSizeOctets(Large) + SegmentLen
    BY TransferAssumption DEF TransferAssumption
  <2>4. FileSizeOctets(Large) \in Nat
    BY DEF FileSizeOctets
  <2>5. len \in Nat /\ len > 0
    BY <2>2, FileOctets
  <2> HIDE DEF start, len, data
  <2> QED BY <2>1, <2>2, <2>3, <2>4, <2>5
<1>2. FileDataOf[segment] = octets
  BY DEF FileDataOf, OctetsOf
<1>3. SegmentIn[octets] = [start |-> NumberOf(read.pdu.offset),
                           data |-> IF read.ret = 0 THEN << >>
                                    ELSE Copied(read.pdu.file_data, read.pdu.file_data_len)]
  <2>1. octets \in Range(FileDataOf)
    <3>1. segment \in DOMAIN FileDataOf
      BY DEF FileDataOf
    <3> HIDE DEF octets
    <3> QED BY <1>2, <3>1 DEF Range
  <2> HIDE DEF octets
  <2> QED BY <2>1 DEF SegmentIn
<1> DEFINE pointer == PointerTo(data)
           offset == UInt64Of(start)
<1>4. /\ pointer \in Pointer /\ pointer # Null /\ pointer[1] = data /\ PointsTo(pointer, len)
  <2>1. pointer \in Pointer
    BY <1>1, PointerToType
  <2> QED BY <1>1, <2>1 DEF PointerTo, Null, PointsTo
<1>5. offset \in UInt64 /\ NumberOf(offset) = start
      /\ Truncated(offset, FileSizeOctets(Large)) = offset
  BY <1>1, NumberTravels
<1>6. /\ fd \in FileData /\ fd.offset = offset /\ fd.file_data = pointer /\ fd.file_data_len = len
      /\ fd.segment_metadata = Null /\ fd.segment_metadata_len = 0 /\ fd.record_continuation = 0
  <2> HIDE DEF offset, pointer, len
  <2>1. fd = [NoFileData EXCEPT !.offset = offset, !.file_data = pointer, !.file_data_len = len]
    BY DEF offset, pointer
  <2> HIDE DEF fd
  <2>2. NoFileData \in FileData
    BY NoFileDataType
  <2>3. /\ fd \in FileData /\ fd.offset = offset /\ fd.file_data = pointer /\ fd.file_data_len = len
        /\ fd.segment_metadata = NoFileData.segment_metadata
        /\ fd.segment_metadata_len = NoFileData.segment_metadata_len
        /\ fd.record_continuation = NoFileData.record_continuation
    BY <1>1, <1>4, <1>5, <2>1, <2>2 DEF FileData
  <2> QED BY <2>3 DEF NoFileData
<1> HIDE DEF fd
<1>7. Large \in {0, 1} /\ BufLen \in Nat /\ ABSENT \in {ABSENT, PRESENT}
  BY FileOctets
<1>8. PointsTo(fd.segment_metadata, fd.segment_metadata_len) /\ PointsTo(fd.file_data, fd.file_data_len)
  <2>1. PointsTo(Null, 0)
    BY DEF PointsTo
  <2> HIDE DEF pointer, len
  <2> QED BY <1>4, <1>6, <2>1
<1>9. octets \in Seq(Octet)
  BY <1>6, <1>7, <1>8, FileDataSerializeType
<1>10. octets # << >>
  <2>1. SegmentMetadataConsistent(fd, ABSENT)
    BY <1>6 DEF SegmentMetadataConsistent, ABSENT, PRESENT, Null
  <2>2. ABSENT # PRESENT
    BY DEF ABSENT, PRESENT
  <2> DEFINE width == FileSizeOctets(Large)
             number == WriteUint(fd.offset, width)
             copied == Copied(fd.file_data, fd.file_data_len)
  <2>3. number \in Seq(Octet) /\ Len(number) = width /\ width \in 1 .. 8
    <3>1. width \in 1 .. 8
      BY DEF FileSizeOctets
    <3> QED BY <1>5, <1>6, <3>1, WriteUintType
  <2>4. copied \in Seq(Octet) /\ Len(copied) = len
    BY <1>1, <1>4, <1>6, <1>8, CopiedType
  <2>5. ~ (BufLen < 0 + width + fd.file_data_len)
    BY <1>1, <1>6, <1>7, <2>3
  <2>6. octets = << >> \o number \o copied
    BY <1>4, <1>6, <2>1, <2>2, <2>5 DEF FileDataSerialize
  <2> HIDE DEF number, copied, len, width
  <2>7. << >> \o number = number
    BY <2>3, ConcatEmptySeq
  <2>8. octets = number \o copied
    BY <2>6, <2>7
  <2>9. Len(number \o copied) = Len(number) + Len(copied)
    BY <2>3, <2>4, ConcatProperties
  <2>10. Len(number \o copied) > 0
    BY <1>1, <2>3, <2>4, <2>9
  <2>11. Len(<< >>) = 0
    OBVIOUS
  <2> HIDE DEF octets
  <2> QED BY <2>8, <2>10, <2>11
<1>11. read.ret # 0 /\ read.pdu = FileDataOnWire(fd, Large, ABSENT)
  BY <1>6, <1>7, <1>8, <1>10, NoFileDataType, FileDataRoundTrip
<1>12. /\ read.pdu.offset = offset /\ read.pdu.file_data = PointerTo(data)
       /\ read.pdu.file_data_len = len
  <2>1. Told(pointer, len) = PointerTo(Copied(pointer, len))
    BY <1>1, <1>4 DEF Told
  <2>2. Copied(pointer, len) = data
    <3>1. Slice(data, 0, len) = data
      <4> HIDE DEF len, data
      <4>1. Slice(data, 0, len) = SubSeq(data, 1, Len(data))
        BY <1>1 DEF Slice
      <4>2. SubSeq(data, 1, Len(data)) = data
        BY <1>1, SubSeqFull
      <4> QED BY <4>1, <4>2
    <3> HIDE DEF len, data
    <3> QED BY <1>1, <1>4, <3>1 DEF Copied
  <2> DEFINE told == Told(pointer, len)
             travelled == Truncated(offset, FileSizeOctets(Large))
             pdu == FileDataOnWire(fd, Large, ABSENT)
  <2>3. told = PointerTo(data) /\ travelled = offset
    BY <1>5, <2>1, <2>2
  <2>4. pdu.offset = Truncated(fd.offset, FileSizeOctets(Large))
        /\ pdu.file_data = Told(fd.file_data, fd.file_data_len)
        /\ pdu.file_data_len = fd.file_data_len
    BY <1>6 DEF FileDataOnWire, FileData
  <2> QED BY <1>6, <1>11, <2>3, <2>4
<1>13. Copied(PointerTo(data), len) = data
  <2>1. Slice(data, 0, len) = data
    <3> HIDE DEF len, data
    <3>1. Slice(data, 0, len) = SubSeq(data, 1, Len(data))
      BY <1>1 DEF Slice
    <3>2. SubSeq(data, 1, Len(data)) = data
      BY <1>1, SubSeqFull
    <3> QED BY <3>1, <3>2
  <2> HIDE DEF len, data
  <2> QED BY <1>1, <2>1 DEF Copied, PointerTo
<1> HIDE DEF read, octets
<1>14. SegmentIn[octets] = [start |-> start, data |-> data]
  BY <1>3, <1>5, <1>11, <1>12, <1>13
<1> QED BY <1>2, <1>9, <1>10, <1>14

(* A checksum in four octets.                                              *)
LEMMA ChecksumOctetsType ==
  ASSUME NEW sum \in Checksum
  PROVE  ChecksumOctets(sum) \in [1 .. 4 -> Octet]
<1>1. Radix \in Nat /\ Radix > 1 /\ Radix <= 256
  BY TransferAssumption, RadixAssumption DEF TransferAssumption, RadixAssumption
<1>2. sum \in Nat
  BY SumType
<1>3. ASSUME NEW k \in 1 .. 4 PROVE (sum \div Weight[k - 1]) % Radix \in Octet
  <2> DEFINE weight == Weight[k - 1]
             part == sum \div weight
  <2>1. k - 1 = 0 \/ k - 1 = 1 \/ k - 1 = 2 \/ k - 1 = 3
    OBVIOUS
  <2>2. weight \in Nat /\ weight > 0
    <3>1. Radix * Radix \in Nat /\ Radix * Radix > 0
      BY <1>1
    <3>2. Radix * Radix * Radix \in Nat /\ Radix * Radix * Radix > 0
      BY <1>1, <3>1
    <3> QED BY <1>1, <2>1, <3>1, <3>2, Weights
  <2> HIDE DEF weight
  <2>3. part \in Int
    BY <1>2, <2>2
  <2> HIDE DEF part
  <2>4. part % Radix \in 0 .. Radix - 1
    BY <1>1, <2>3, Remainder
  <2> QED BY <1>1, <2>4 DEF Octet, part, weight
<1> QED BY <1>3 DEF ChecksumOctets

(* build_eof, then cfdp_eof_deserialize.                                   *)
LEMMA EofArrives ==
  /\ EofOf \in Seq(Octet) \ {<< >>}
  /\ EofIn.ret > 0 /\ EofIn.pdu \in Eof
  /\ EofIn.pdu.condition_code = CFDP_COND_NO_ERROR
  /\ NumberOf(EofIn.pdu.file_size) = Len(File)
  /\ EofIn.pdu.file_checksum = ChecksumOctets(ChecksumCompute(File))
<1> DEFINE size == UInt64Of(Len(File))
           sum == ChecksumOctets(ChecksumCompute(File))
           src == [ClearEof EXCEPT !.condition_code = CFDP_COND_NO_ERROR,
                                   !.file_checksum = sum, !.file_size = size]
           octets == EofSerialize(src, Large, BufLen)
           told == EofTold(src, Large)
<1>1. size \in UInt64 /\ NumberOf(size) = Len(File)
      /\ Truncated(size, FileSizeOctets(Large)) = size
  <2>1. Len(File) \in 0 .. UINT16_MAX
    BY FileOctets
  <2> QED BY <2>1, NumberTravels
<1>2. sum \in [1 .. 4 -> Octet]
  <2>1. ChecksumCompute(File) \in Checksum
    BY FileOctets, SumType, UpdateType DEF ChecksumCompute
  <2> QED BY <2>1, ChecksumOctetsType
<1>3. EofOf = octets
  BY DEF EofOf
<1>4. EofIn = EofDeserialize(octets, Large, ClearEof)
  BY <1>3 DEF EofIn
<1> DEFINE none == Zeros(8)
<1>5. none \in UInt64
  BY DEF Zeros, UInt64, Octet
<1> HIDE DEF size, sum, none
<1>6. /\ src.condition_code = CFDP_COND_NO_ERROR /\ src.file_checksum = sum
      /\ src.file_size = size /\ src.fault_location_entity_id = none
      /\ src.fault_location_len = 0
  BY DEF ClearEof, none
<1>7. src = [condition_code |-> CFDP_COND_NO_ERROR, file_checksum |-> sum, file_size |-> size,
             fault_location_entity_id |-> none, fault_location_len |-> 0]
  <2> DEFINE zeros == Zeros(4)
             clear == [condition_code |-> 0, file_checksum |-> zeros, file_size |-> none,
                       fault_location_entity_id |-> none, fault_location_len |-> 0]
             noError == CFDP_COND_NO_ERROR
  <2>1. ClearEof = clear
    BY DEF ClearEof, none
  <2> HIDE DEF zeros, noError
  <2> DEFINE Such(c, s, f) == [condition_code |-> c, file_checksum |-> s, file_size |-> f,
                              fault_location_entity_id |-> none, fault_location_len |-> 0]
  <2>6. Such(noError, sum, size) = [condition_code |-> noError, file_checksum |-> sum,
           file_size |-> size, fault_location_entity_id |-> none, fault_location_len |-> 0]
    OBVIOUS
  <2> DEFINE first == [clear EXCEPT !.condition_code = noError]
             second == [first EXCEPT !.file_checksum = sum]
             third == [second EXCEPT !.file_size = size]
  <2>7. first = Such(noError, zeros, none)
    OBVIOUS
  <2> HIDE DEF first
  <2>8. second = Such(noError, sum, none)
    BY <2>7
  <2> HIDE DEF second
  <2>9. third = Such(noError, sum, size)
    BY <2>8
  <2> HIDE DEF third, Such, clear
  <2>10. src = third
    BY <2>1 DEF third, second, first, noError
  <2> HIDE DEF src
  <2> QED BY <2>6, <2>9, <2>10 DEF noError
<1>8. src \in EofSources
  <2> HIDE DEF src
  <2> QED BY <1>1, <1>2, <1>5, <1>7 DEF EofSources, CFDP_COND_NO_ERROR, Octet
<1>9. told = [src EXCEPT !.file_size = size, !.fault_location_entity_id = none,
                         !.fault_location_len = 0]
  <2> HIDE DEF src
  <2> QED BY <1>1, <1>6 DEF EofTold, none
<1>10. told = src /\ src \in Eof
  <2>1. told = [condition_code |-> CFDP_COND_NO_ERROR, file_checksum |-> sum, file_size |-> size,
                fault_location_entity_id |-> none, fault_location_len |-> 0]
    <3> HIDE DEF src, told
    <3> QED BY <1>7, <1>9
  <2>2. src \in Eof
    <3> HIDE DEF src
    <3> QED BY <1>1, <1>2, <1>5, <1>7 DEF Eof, CFDP_COND_NO_ERROR
  <2> HIDE DEF src, told
  <2> QED BY <1>7, <2>1, <2>2
<1> HIDE DEF src, told
<1> DEFINE head == <<CFDP_DIRECTIVE_EOF, 16 * CFDP_COND_NO_ERROR>>
           number == WriteUint(size, FileSizeOctets(Large))
<1>11. octets = head \o sum \o number \o << >>
  <2>1. ~ (BufLen < EofSize(Large))
    <3>1. EofSize(Large) \in Nat /\ BufLen \in Nat /\ BufLen >= EofSize(Large)
      BY TransferAssumption DEF TransferAssumption, EofSize, FileSizeOctets
    <3> QED BY <3>1
  <2> QED BY <1>6, <2>1 DEF EofSerialize
<1>12. head \in Seq(Octet) /\ Len(head) = 2
  BY DEF Octet, CFDP_DIRECTIVE_EOF, CFDP_COND_NO_ERROR
<1>13. sum \in Seq(Octet) /\ Len(sum) = 4
  <2>1. 4 \in Nat
    OBVIOUS
  <2> QED BY ONLY <1>2, <2>1, FunctionIsSeq
<1>14. number \in Seq(Octet)
  <2>1. Large \in {0, 1}
    BY FileOctets
  <2>2. FileSizeOctets(Large) \in 1 .. 8
    BY <2>1, FileSizeWidth
  <2> QED BY ONLY <1>1, <2>2, WriteUintType DEF number
<1> HIDE DEF head, number, octets
<1>15. octets \in Seq(Octet) /\ Len(octets) > 0
  <2> DEFINE front == head \o sum
             body == front \o number
             none0 == << >>
  <2>1. front \in Seq(Octet) /\ Len(front) = Len(head) + Len(sum)
    BY ONLY <1>12, <1>13, ConcatProperties
  <2> HIDE DEF front
  <2>2. body \in Seq(Octet) /\ Len(body) = Len(front) + Len(number)
    BY ONLY <1>14, <2>1, ConcatProperties
  <2> HIDE DEF body
  <2>3. body \o << >> = body
    BY <2>2, ConcatEmptySeq
  <2>4. octets = body
    BY <1>11, <2>3 DEF body, front
  <2>5. Len(number) \in Nat
    BY <1>14, LenProperties
  <2> QED BY <1>12, <1>13, <2>1, <2>2, <2>4, <2>5
<1>16. octets # << >>
  <2>1. Len(<< >>) = 0
    OBVIOUS
  <2> QED BY <1>15, <2>1
<1> DEFINE result == EofDeserialize(octets, Large, ClearEof)
<1>17. ReadBack(result, octets, told)
  <2>1. Large \in {0, 1}
    BY FileOctets
  <2>2. octets = EofSerialize(src, Large, BufLen)
    BY DEF octets
  <2>3. ReadBack(EofDeserialize(octets, Large, ClearEof), octets, EofTold(src, Large))
    BY ONLY <1>8, <1>16, <2>1, <2>2, EofReadBack
  <2> QED BY <2>3 DEF told
<1> HIDE DEF result
<1>18. result.ret > 0 /\ result.pdu = src
  BY <1>10, <1>17 DEF ReadBack
<1>19. EofIn = result
  BY <1>4 DEF result
<1> QED BY <1>1, <1>3, <1>6, <1>10, <1>15, <1>16, <1>18, <1>19 DEF size, sum

-----------------------------------------------------------------------------
(* The running checksum                                                    *)

(* The file with every octet as often as it has arrived.                   *)
Weighed(t) == [k \in DOMAIN File |-> t[k] * File[k]]

LEMMA WeighedType ==
  ASSUME NEW t \in [DOMAIN File -> Nat]
  PROVE  /\ Weighed(t) \in Seq(Nat) /\ Len(Weighed(t)) = Len(File)
         /\ \A k \in 1 .. Len(File) : Weighed(t)[k] = t[k] * File[k]
<1> DEFINE weighed == Weighed(t)
<1>1. /\ File \in Seq(Nat) /\ Len(File) \in Nat /\ DOMAIN File = 1 .. Len(File)
      /\ \A k \in 1 .. Len(File) : File[k] \in Nat
  BY FileOctets, ElementOfSeq
<1>2. weighed = [k \in 1 .. Len(File) |-> t[k] * File[k]]
  BY <1>1 DEF Weighed
<1>3. \A k \in 1 .. Len(File) : t[k] * File[k] \in Nat
  <2>1. ASSUME NEW k \in 1 .. Len(File) PROVE t[k] * File[k] \in Nat
    <3>1. t[k] \in Nat /\ File[k] \in Nat
      BY <1>1
    <3> QED BY ONLY <3>1, ProductType
  <2> QED BY <2>1
<1> HIDE DEF weighed
<1>4. weighed \in [1 .. Len(File) -> Nat]
  BY <1>2, <1>3
<1>5. weighed \in Seq(Nat) /\ Len(weighed) = Len(File)
  <2> DEFINE size == Len(File)
  <2>1. size \in Nat /\ weighed \in [1 .. size -> Nat]
    BY <1>1, <1>4
  <2> HIDE DEF size
  <2>2. weighed \in Seq(Nat) /\ Len(weighed) = size
    BY <2>1
  <2> QED BY <2>2 DEF size
<1> QED BY <1>2, <1>5 DEF weighed

LEMMA BothRemainders ==
  ASSUME NEW a \in Int, NEW b \in Int, NEW m \in Nat, m > 0
  PROVE  ((a % m) + (b % m)) % m = (a + b) % m
<1> DEFINE r == b % m
<1>1. r \in Int
  BY Remainder
<1>2. ((b % m) + a) % m = (b + a) % m
  BY RemainderOfSum
<1> HIDE DEF r
<1>3. ((a % m) + r) % m = (a + r) % m
  BY <1>1, RemainderOfSum
<1>4. a + r = r + a /\ a + b = b + a
  BY <1>1
<1> QED BY <1>2, <1>3, <1>4 DEF r

(* The checksum of two files added octet by octet is the sum of theirs.    *)
LEMMA ComputeOfSum ==
  ASSUME NEW f \in Seq(Nat), NEW g \in Seq(Nat), NEW h \in Seq(Nat),
         Len(g) = Len(f), Len(h) = Len(f),
         \A k \in 1 .. Len(f) : h[k] = f[k] + g[k]
  PROVE  ChecksumCompute(h) = (ChecksumCompute(f) + ChecksumCompute(g)) % Modulus
<1> DEFINE len == Len(f)
<1>1. len \in Nat /\ Modulus \in Nat /\ Modulus > 0
  BY LenProperties, Weights
<1>2. PICK a : Adds(0, 0, f, a) /\ ChecksumCompute(f) = a[len]
  BY ComputeAdds
<1>3. PICK b : Adds(0, 0, g, b) /\ ChecksumCompute(g) = b[Len(g)]
  BY ComputeAdds
<1>4. PICK c : Adds(0, 0, h, c) /\ ChecksumCompute(h) = c[Len(h)]
  BY ComputeAdds
<1>5. \A n \in 0 .. len : a[n] \in Nat /\ b[n] \in Nat /\ c[n] \in Nat
  BY <1>2, <1>3, <1>4 DEF Adds
<1> DEFINE T == {n \in 0 .. len : c[n] = (a[n] + b[n]) % Modulus}
<1>6. 0 \in T
  <2>1. (0 % Modulus) = 0 /\ 0 + 0 = 0
    BY SumType
  <2> QED BY <1>1, <1>2, <1>3, <1>4, <2>1 DEF Adds
<1>7. ASSUME NEW n \in 0 .. len, n \in T, n < len
      PROVE  n + 1 \in T
  <2> DEFINE m == n + 1
             x == f[m] * Worth(m)
             y == g[m] * Worth(m)
             z == h[m] * Worth(m)
             p == a[n]
             q == b[n]
  <2>1. m \in 1 .. len /\ m - 1 = n /\ m \in 0 .. len /\ m \in Nat /\ m > 0 /\ 0 + m = m
    BY <1>1, <1>7
  <2>2. a[m] = (p + x) % Modulus
    BY <1>2, <2>1 DEF Adds
  <2>3. b[m] = (q + y) % Modulus
    BY <1>3, <2>1 DEF Adds
  <2>4. c[m] = (c[n] + z) % Modulus
    BY <1>4, <2>1 DEF Adds
  <2>5. f[m] \in Nat /\ g[m] \in Nat /\ Worth(m) \in Nat
    BY <2>1, ElementOfSeq, WorthType
  <2>6. x \in Nat /\ y \in Nat
    BY ONLY <2>5, ProductType
  <2>7. z = x + y
    <3>1. h[m] = f[m] + g[m]
      BY <2>1
    <3>2. (f[m] + g[m]) * Worth(m) = f[m] * Worth(m) + g[m] * Worth(m)
      BY ONLY <2>5, ProductOfSum
    <3> QED BY <3>1, <3>2
  <2>8. p \in Nat /\ q \in Nat /\ c[n] = (p + q) % Modulus
    BY <1>5, <1>7
  <2> HIDE DEF m, x, y, z, p, q
  <2>9. c[m] = ((p + q) + (x + y)) % Modulus
    <3>1. (((p + q) % Modulus) + (x + y)) % Modulus = ((p + q) + (x + y)) % Modulus
      <4>1. p + q \in Int /\ x + y \in Int
        BY <2>6, <2>8
      <4> QED BY ONLY <1>1, <4>1, RemainderOfSum
    <3> QED BY <2>4, <2>7, <2>8, <3>1
  <2>10. (a[m] + b[m]) % Modulus = ((p + x) + (q + y)) % Modulus
    <3>1. p + x \in Int /\ q + y \in Int
      BY <2>6, <2>8
    <3>2. (((p + x) % Modulus) + ((q + y) % Modulus)) % Modulus = ((p + x) + (q + y)) % Modulus
      BY ONLY <1>1, <3>1, BothRemainders
    <3> QED BY <2>2, <2>3, <3>2
  <2>11. (p + q) + (x + y) = (p + x) + (q + y)
    BY <2>6, <2>8
  <2> QED BY <2>1, <2>9, <2>10, <2>11 DEF m
<1>8. 0 .. len \subseteq T
  <2> HIDE DEF T
  <2> QED BY <1>1, <1>6, <1>7, BoundedInduction
<1>9. len \in T
  <2>1. len \in 0 .. len
    BY <1>1
  <2> HIDE DEF T
  <2> QED BY <1>8, <2>1
<1> QED BY <1>2, <1>3, <1>4, <1>9

(* A second part of the same checksum shows unless it is zero.             *)
LEMMA PartShows ==
  ASSUME NEW s \in Checksum, NEW e \in Checksum
  PROVE  ((s + e) % Modulus = s) <=> e = 0
<1>1. /\ s \in Nat /\ e \in Nat /\ s < Modulus /\ e < Modulus
      /\ Modulus \in Nat /\ Modulus > 0 /\ s = (s % Modulus)
  BY Weights, SumType DEF Checksum
<1>2. ASSUME (s + e) % Modulus = s PROVE e = 0
  <2>1. s + e \in Int /\ s \in Int /\ (s + e) - s < Modulus /\ s - (s + e) < Modulus
    BY <1>1
  <2>2. (s + e) % Modulus = (s % Modulus)
    BY <1>1, <1>2
  <2>3. s + e = s
    BY ONLY <1>1, <2>1, <2>2, RemainderTells
  <2> QED BY <1>1, <2>3
<1>3. ASSUME e = 0 PROVE (s + e) % Modulus = s
  BY <1>1, <1>3
<1> QED BY <1>2, <1>3

-----------------------------------------------------------------------------
(* Four octets tell checksums apart                                        *)

LEMMA QuotientType ==
  ASSUME NEW n \in Nat, NEW a \in Nat, a > 0
  PROVE  /\ (n \div a) \in Nat /\ (n % a) \in Nat
         /\ n = a * (n \div a) + (n % a)
OBVIOUS

LEMMA QuotientIs ==
  ASSUME NEW q \in Int, NEW r \in Nat, NEW m \in Nat, r < m
  PROVE  (m * q + r) \div m = q
OBVIOUS

LEMMA LessFactor ==
  ASSUME NEW a \in Nat, NEW b \in Nat, NEW m \in Nat, m > 0, m * a < m * b
  PROVE  a < b
<1> SUFFICES ASSUME ~ (a < b) PROVE FALSE
  OBVIOUS
<1>1. a - b \in Nat
  OBVIOUS
<1>2. m * (a - b) \in Nat
  BY ONLY m \in Nat, <1>1, ProductType
<1>3. m * (a - b) = m * a - m * b
  OBVIOUS
<1> QED BY <1>2, <1>3

(* Digits: the quotient by a and then by b is that by a * b.               *)
LEMMA QuotientOfQuotient ==
  ASSUME NEW n \in Nat, NEW a \in Nat, a > 0, NEW b \in Nat, b > 0
  PROVE  (n \div a) \div b = n \div (a * b)
<1> DEFINE q == n \div a
           r == n % a
           u == q \div b
           v == q % b
<1>1. q \in Int /\ r \in 0 .. a - 1 /\ n = a * q + r
  BY Remainder
<1> HIDE DEF q, r
<1>2. u \in Int /\ v \in 0 .. b - 1 /\ q = b * u + v
  BY <1>1, Remainder
<1> HIDE DEF u, v
<1> DEFINE rest == a * v + r
<1>3. a * b \in Nat /\ a * b > 0
  OBVIOUS
<1>4. n = (a * b) * u + rest
  BY <1>1, <1>2
<1>5. rest \in Nat /\ rest < a * b
  <2>1. a * v <= a * (b - 1)
    <3>1. v \in Nat /\ b - 1 - v \in Nat
      BY <1>2
    <3>2. a * (b - 1 - v) \in Nat
      BY ONLY a \in Nat, <3>1, ProductType
    <3>3. a * (b - 1 - v) = a * (b - 1) - a * v
      BY <3>1
    <3>4. a * v \in Int /\ a * (b - 1) \in Int
      BY <3>1
    <3> QED BY <3>2, <3>3, <3>4
  <2>2. a * (b - 1) = a * b - a
    OBVIOUS
  <2>3. v \in Nat /\ r \in Nat /\ r < a
    BY <1>1, <1>2
  <2>4. a * v \in Nat
    BY ONLY a \in Nat, <2>3, ProductType
  <2> QED BY <1>3, <2>1, <2>2, <2>3, <2>4
<1> DEFINE m == a * b
<1> HIDE DEF rest, m
<1>6. n \div m = u
  BY <1>2, <1>3, <1>4, <1>5, QuotientIs DEF m
<1> QED BY <1>6 DEF u, q, m

(* A checksum is what its four octets make up.                             *)
LEMMA OctetsMakeUp ==
  ASSUME NEW sum \in Checksum
  PROVE  sum = ((ChecksumOctets(sum)[1] * Radix + ChecksumOctets(sum)[2]) * Radix
                  + ChecksumOctets(sum)[3]) * Radix + ChecksumOctets(sum)[4]
<1> DEFINE two == Radix * Radix
           three == two * Radix
           q1 == sum \div Radix
           q2 == q1 \div Radix
           q3 == q2 \div Radix
<1>1. Radix \in Nat /\ Radix > 1
  BY RadixAssumption DEF RadixAssumption
<1>2. sum \in Nat /\ sum < Modulus
  BY SumType, Weights DEF Checksum
<1>3. two \in Nat /\ two > 0 /\ three \in Nat /\ three > 0
  <2>1. two \in Nat /\ two > 0
    BY <1>1
  <2> HIDE DEF two
  <2> QED BY <1>1, <2>1
<1>4. /\ q1 \in Nat /\ sum = Radix * q1 + (sum % Radix)
      /\ q2 \in Nat /\ q1 = Radix * q2 + (q1 % Radix)
      /\ q3 \in Nat /\ q2 = Radix * q3 + (q2 % Radix)
  <2>1. q1 \in Nat /\ sum = Radix * q1 + (sum % Radix)
    BY <1>1, <1>2, QuotientType
  <2> HIDE DEF q1
  <2>2. q2 \in Nat /\ q1 = Radix * q2 + (q1 % Radix)
    BY <1>1, <2>1, QuotientType
  <2> HIDE DEF q2
  <2>3. q3 \in Nat /\ q2 = Radix * q3 + (q2 % Radix)
    BY <1>1, <2>2, QuotientType
  <2> QED BY <2>1, <2>2, <2>3
<1>5. sum \div two = q2 /\ sum \div three = q3
  <2>1. (sum \div Radix) \div Radix = sum \div (Radix * Radix)
    BY <1>1, <1>2, QuotientOfQuotient
  <2> HIDE DEF two
  <2>2. (sum \div two) \div Radix = sum \div (two * Radix)
    BY ONLY <1>1, <1>2, <1>3, QuotientOfQuotient
  <2> QED BY <2>1, <2>2 DEF two
<1>6. q3 % Radix = q3
  <2>1. q3 < Radix
    <3>1. Modulus = three * Radix
      BY DEF Modulus
    <3> HIDE DEF three
    <3>2. sum = three * q3 + (sum % three) /\ (sum % three) \in Nat
      BY <1>2, <1>3, <1>5, QuotientType
    <3> HIDE DEF q3
    <3> DEFINE rest == sum % three
    <3> HIDE DEF rest
    <3>3. sum = three * q3 + rest /\ rest \in Nat
      BY <3>2 DEF rest
    <3>4. three * q3 < three * Radix
      BY <1>1, <1>2, <1>3, <1>4, <3>1, <3>3
    <3> QED BY <1>1, <1>3, <1>4, <3>4, LessFactor
  <2>2. q3 \in Nat
    BY <1>4
  <2> HIDE DEF q3
  <2>3. (Radix * 0 + q3) % Radix = q3
    BY <1>1, <2>1, <2>2, RemainderIs
  <2>4. Radix * 0 + q3 = q3
    BY <1>1, <2>2
  <2> QED BY <2>3, <2>4
<1>7. /\ ChecksumOctets(sum)[1] = q3
      /\ ChecksumOctets(sum)[2] = q2 % Radix
      /\ ChecksumOctets(sum)[3] = q1 % Radix
      /\ ChecksumOctets(sum)[4] = sum % Radix
  <2>1. Weight[0] = three /\ Weight[1] = two /\ Weight[2] = Radix /\ Weight[3] = 1
    BY Weights
  <2>2. \A k \in 1 .. 4 : ChecksumOctets(sum)[k] = (sum \div Weight[k - 1]) % Radix
    BY DEF ChecksumOctets
  <2>3. /\ 1 - 1 = 0 /\ 2 - 1 = 1 /\ 3 - 1 = 2 /\ 4 - 1 = 3
        /\ 1 \in 1 .. 4 /\ 2 \in 1 .. 4 /\ 3 \in 1 .. 4 /\ 4 \in 1 .. 4
    OBVIOUS
  <2>4. sum \div 1 = sum
    BY <1>2
  <2> HIDE DEF two, three, q2, q3
  <2>5. ChecksumOctets(sum)[1] = (sum \div Weight[0]) % Radix
        /\ ChecksumOctets(sum)[2] = (sum \div Weight[1]) % Radix
        /\ ChecksumOctets(sum)[3] = (sum \div Weight[2]) % Radix
        /\ ChecksumOctets(sum)[4] = (sum \div Weight[3]) % Radix
    BY <2>2, <2>3
  <2> QED BY <1>5, <1>6, <2>1, <2>4, <2>5
<1> DEFINE d2 == q2 % Radix
           d3 == q1 % Radix
           d4 == sum % Radix
<1>8. d2 \in Nat /\ d3 \in Nat /\ d4 \in Nat
  BY <1>1, <1>2, <1>4, QuotientType
<1>9. q2 = q3 * Radix + d2
  <2> HIDE DEF q3
  <2> QED BY <1>1, <1>4
<1>10. q1 = q2 * Radix + d3
  <2> HIDE DEF q2
  <2> QED BY <1>1, <1>4
<1>11. sum = q1 * Radix + d4
  <2> HIDE DEF q1
  <2> QED BY <1>1, <1>4
<1> HIDE DEF q1, q2, q3, d2, d3, d4
<1> QED BY <1>7, <1>9, <1>10, <1>11 DEF d2, d3, d4

LEMMA OctetsTell ==
  ASSUME NEW a \in Checksum, NEW b \in Checksum
  PROVE  (ChecksumOctets(a) = ChecksumOctets(b)) <=> a = b
BY OctetsMakeUp

-----------------------------------------------------------------------------
(* The invariant, by whose state it is about                               *)

LinkInv == link \subseteq Encoded

ReceiverInv ==
  /\ arrivals \in 0 .. MaxArrivals
  /\ times \in [DOMAIN File -> 0 .. arrivals]
  /\ DOMAIN copy = {k \in DOMAIN File : times[k] > 0}
  /\ copy = [k \in DOMAIN copy |-> File[k]]
  /\ checksum = ChecksumCompute(Weighed(times))
  /\ eof \in {<< >>, <<EofIn.pdu>>}

(* What a history of arrivals adds up to.                                  *)
LEMMA WeighedSum ==
  ASSUME NEW n \in Nat, NEW t \in [DOMAIN File -> 0 .. n]
  PROVE  /\ WordSum(Weighed(t)) = ChecksumCompute(Weighed(t))
         /\ ChecksumCompute(Weighed(t)) \in Checksum
<1>1. Weighed(t) \in Seq(Nat)
  <2>1. 0 .. n \subseteq Nat
    OBVIOUS
  <2>2. t \in [DOMAIN File -> Nat]
    BY <2>1
  <2> QED BY <2>2, WeighedType
<1> DEFINE weighed == Weighed(t)
<1> HIDE DEF weighed
<1> QED BY <1>1, WordSumIsCompute, SumType, UpdateType DEF weighed, ChecksumCompute

(* What is on the link, by its kind.                                       *)
LEMMA OnTheLink ==
  ASSUME NEW pdu \in Encoded
  PROVE  /\ pdu.octets \in Seq(Octet) \ {<< >>}
         /\ pdu.kind = FILE_DATA => \E segment \in Segments : pdu.octets = FileDataOf[segment]
<1>1. FILE_DATA # CFDP_DIRECTIVE_EOF
  BY DEF FILE_DATA, CFDP_DIRECTIVE_EOF
<1>2. ASSUME NEW segment \in Segments, pdu = [kind |-> FILE_DATA, octets |-> FileDataOf[segment]]
      PROVE  pdu.octets = FileDataOf[segment] /\ pdu.octets \in Seq(Octet) \ {<< >>}
  BY <1>2, SegmentReadBack
<1>3. ASSUME pdu = [kind |-> CFDP_DIRECTIVE_EOF, octets |-> EofOf]
      PROVE  pdu.kind = CFDP_DIRECTIVE_EOF /\ pdu.octets \in Seq(Octet) \ {<< >>}
  BY <1>3, EofArrives
<1>4. \/ \E segment \in Segments : pdu = [kind |-> FILE_DATA, octets |-> FileDataOf[segment]]
      \/ pdu = [kind |-> CFDP_DIRECTIVE_EOF, octets |-> EofOf]
  BY DEF Encoded
<1> QED BY <1>1, <1>2, <1>3, <1>4

LEMMA IInvParts == IInv <=> LinkInv /\ ReceiverInv
<1>1. MaxArrivals \in Nat
  BY TransferAssumption DEF TransferAssumption
<1>2. ASSUME arrivals \in 0 .. MaxArrivals, times \in [DOMAIN File -> 0 .. arrivals]
      PROVE  /\ ChecksumOfArrivals <=> checksum = ChecksumCompute(Weighed(times))
             /\ ChecksumCompute(Weighed(times)) \in Checksum
  <2>1. arrivals \in Nat
    BY <1>1, <1>2
  <2>2. /\ WordSum(Weighed(times)) = ChecksumCompute(Weighed(times))
        /\ ChecksumCompute(Weighed(times)) \in Checksum
    BY <1>2, <2>1, WeighedSum
  <2>3. ChecksumOfArrivals <=> checksum = WordSum(Weighed(times))
    BY DEF ChecksumOfArrivals, Weighed
  <2> QED BY <2>2, <2>3
<1>3. ASSUME IInv PROVE LinkInv /\ ReceiverInv
  <2>1. arrivals \in 0 .. MaxArrivals /\ times \in [DOMAIN File -> 0 .. arrivals]
    BY <1>3 DEF IInv, TypeOK
  <2>2. checksum = ChecksumCompute(Weighed(times))
    BY <1>2, <1>3, <2>1 DEF IInv
  <2> QED BY <1>3, <2>1, <2>2 DEF IInv, LinkInv, ReceiverInv
<1>4. ASSUME LinkInv, ReceiverInv PROVE IInv
  <2>1. /\ arrivals \in 0 .. MaxArrivals /\ times \in [DOMAIN File -> 0 .. arrivals]
        /\ checksum = ChecksumCompute(Weighed(times))
    BY <1>4 DEF ReceiverInv
  <2>2. ChecksumOfArrivals /\ checksum \in 0 .. Modulus - 1
    BY <1>2, <2>1 DEF Checksum
  <2>3. \A pdu \in link : pdu.octets \in Seq(Octet) \ {<< >>}
    BY <1>4, OnTheLink DEF LinkInv
  <2>4. \A k \in DOMAIN eof : eof[k] \in Eof
    <3>1. EofIn.pdu \in Eof
      BY EofArrives
    <3> DEFINE pdu == EofIn.pdu
    <3> HIDE DEF pdu
    <3>2. eof = << >> \/ eof = <<pdu>>
      BY <1>4 DEF ReceiverInv, pdu
    <3>3. CASE eof = << >>
      BY <3>3
    <3>4. CASE eof = <<pdu>>
      BY <3>1, <3>4 DEF pdu
    <3> QED BY <3>2, <3>3, <3>4
  <2>5. DOMAIN copy \subseteq DOMAIN File
    BY <1>4 DEF ReceiverInv
  <2>6. TypeOK
    BY <2>1, <2>2, <2>3, <2>4, <2>5 DEF TypeOK
  <2> QED BY <1>4, <2>2, <2>6 DEF IInv, LinkInv, ReceiverInv
<1> QED BY <1>3, <1>4

LEMMA IInvPartsNext == (LinkInv' /\ ReceiverInv') => IInv'
BY IInvParts, PTL

-----------------------------------------------------------------------------
(* The steps                                                               *)

LEMMA InitIInv == Init => IInv
<1> SUFFICES ASSUME Init PROVE LinkInv /\ ReceiverInv
  BY IInvParts
<1>1. LinkInv
  BY DEF Init, LinkInv
<1>2. /\ copy = << >> /\ checksum = 0 /\ eof = << >> /\ arrivals = 0
      /\ times = [k \in DOMAIN File |-> 0]
  BY DEF Init
<1>3. arrivals \in 0 .. MaxArrivals /\ times \in [DOMAIN File -> 0 .. arrivals]
  BY <1>2, TransferAssumption DEF TransferAssumption
<1>4. DOMAIN copy = {k \in DOMAIN File : times[k] > 0}
  <2>1. DOMAIN copy = {}
    BY <1>2
  <2>2. \A k \in DOMAIN File : ~ (times[k] > 0)
    BY <1>2
  <2> QED BY <2>1, <2>2
<1>5. copy = [k \in DOMAIN copy |-> File[k]]
  BY <1>2
<1>6. checksum = ChecksumCompute(Weighed(times))
  <2>1. times \in [DOMAIN File -> Nat]
    BY <1>2
  <2>2. Weighed(times) \in Seq(Nat) /\ Len(Weighed(times)) = Len(File)
        /\ \A k \in 1 .. Len(File) : Weighed(times)[k] = times[k] * File[k]
    BY <2>1, WeighedType
  <2>3. ASSUME NEW k \in 1 .. Len(File) PROVE times[k] * File[k] = 0
    <3>1. times[k] = 0 /\ File[k] \in Nat
      BY <1>2, FileOctets, ElementOfSeq
    <3> QED BY <3>1
  <2> DEFINE weighed == Weighed(times)
  <2>4. weighed \in Seq(Nat) /\ \A k \in 1 .. Len(weighed) : weighed[k] = 0
    BY <2>2, <2>3
  <2> HIDE DEF weighed
  <2>5. ChecksumCompute(weighed) = 0
    BY <2>4, ZerosCount
  <2> QED BY <1>2, <2>5 DEF weighed
<1> QED BY <1>1, <1>2, <1>3, <1>4, <1>5, <1>6 DEF ReceiverInv

(* What is sent is encoded, and what stays on the link as well.            *)
LEMMA SendKeeps ==
  ASSUME LinkInv, ReceiverInv, NEW pdu \in Encoded, Send(pdu)
  PROVE  LinkInv' /\ ReceiverInv'
BY DEF Send, receiverVars, LinkInv, ReceiverInv

LEMMA LoseKeeps ==
  ASSUME LinkInv, ReceiverInv, NEW pdu \in link, Lose(pdu)
  PROVE  LinkInv' /\ ReceiverInv'
BY DEF Lose, receiverVars, LinkInv, ReceiverInv

LEMMA DeliverKeeps ==
  ASSUME LinkInv, NEW pdu, NEW again, Deliver(pdu, again)
  PROVE  LinkInv'
BY DEF Deliver, LinkInv

LEMMA TakeEofKeeps ==
  ASSUME LinkInv, ReceiverInv, NEW pdu \in link, NEW again \in BOOLEAN,
         TakeEof(pdu, again)
  PROVE  LinkInv' /\ ReceiverInv'
<1>1. LinkInv'
  BY DeliverKeeps DEF TakeEof
<1>2. ReceiverInv'
  BY DEF TakeEof, ReceiverInv
<1> QED BY <1>1, <1>2

(* A segment overwrites octets of the file with the same octets, and each  *)
(* of them counts one time more.                                           *)
LEMMA TakeFileDataKeeps ==
  ASSUME LinkInv, ReceiverInv, NEW pdu \in link, NEW again \in BOOLEAN,
         TakeFileData(pdu, again)
  PROVE  LinkInv' /\ ReceiverInv'
<1> DEFINE arrived == SegmentIn[pdu.octets]
           written == arrived.start + 1 .. arrived.start + Len(arrived.data)
           size == Len(File)
<1>1. LinkInv'
  BY DeliverKeeps DEF TakeFileData
<1>2. PICK segment \in Segments : pdu.octets = FileDataOf[segment]
  BY OnTheLink DEF TakeFileData, LinkInv
<1> DEFINE start == segment.start
           data == OctetsOf(segment)
<1>3. arrived.start = start /\ arrived.data = data
  <2>1. SegmentIn[FileDataOf[segment]] = [start |-> start, data |-> data]
    BY SegmentReadBack
  <2> HIDE DEF start, data
  <2>2. arrived = [start |-> start, data |-> data]
    BY <1>2, <2>1
  <2> HIDE DEF arrived
  <2> QED BY <2>2
<1>4. /\ arrivals < MaxArrivals /\ arrivals' = arrivals + 1
      /\ copy' = [k \in DOMAIN copy \cup written |->
                    IF k \in written THEN arrived.data[k - arrived.start] ELSE copy[k]]
      /\ checksum' = ChecksumUpdate(checksum, arrived.start, arrived.data)
      /\ times' = [k \in DOMAIN times |-> IF k \in written THEN times[k] + 1 ELSE times[k]]
      /\ eof' = eof
  BY DEF TakeFileData
<1> HIDE DEF arrived
<1>5. written = start + 1 .. start + Len(data)
  BY <1>3
<1> HIDE DEF written
<1>6. /\ start \in Nat /\ data \in Seq(Octet) /\ data \in Seq(Nat) /\ Len(data) \in Nat
      /\ size \in Nat /\ start + Len(data) <= size /\ DOMAIN File = 1 .. size
      /\ \A k \in 1 .. Len(data) : data[k] = File[start + k]
  <2>1. segment \in Ranges
    BY DEF Segments
  <2>2. /\ start \in 0 .. UINT16_MAX /\ segment.end \in 1 .. UINT16_MAX /\ start < segment.end
        /\ segment.end <= size /\ data \in Seq(Octet) /\ Len(data) = segment.end - start
        /\ \A k \in 1 .. segment.end - start : data[k] = File[start + k]
    BY <2>1, OctetsOfType
  <2>3. size \in Nat /\ DOMAIN File = 1 .. size /\ UINT16_MAX \in Nat
    BY FileOctets
  <2>4. data \in Seq(Nat)
    <3> HIDE DEF data
    <3>1. Len(data) \in Nat /\ data \in [1 .. Len(data) -> Octet] /\ Octet \subseteq Nat
      BY <2>2, LenProperties, OctetIsNat
    <3>2. data \in [1 .. Len(data) -> Nat]
      BY <3>1
    <3> QED BY <3>1, <3>2
  <2> HIDE DEF start, data, size
  <2> QED BY <2>2, <2>3, <2>4
<1> HIDE DEF start, data, size
<1>7. arrivals' \in 0 .. MaxArrivals
  BY <1>4, TransferAssumption DEF TransferAssumption, ReceiverInv
<1>8. times' \in [DOMAIN File -> 0 .. arrivals']
  <2>1. times \in [DOMAIN File -> 0 .. arrivals] /\ arrivals \in Nat
    BY TransferAssumption DEF TransferAssumption, ReceiverInv
  <2> QED BY <1>4, <2>1
<1>9. written \subseteq DOMAIN File
  BY <1>5, <1>6
<1>10. \A k \in DOMAIN File : times'[k] = IF k \in written THEN times[k] + 1 ELSE times[k]
  BY <1>4 DEF ReceiverInv
<1>11. DOMAIN copy' = {k \in DOMAIN File : times'[k] > 0}
  <2>1. DOMAIN copy' = DOMAIN copy \cup written
    BY <1>4
  <2>2. DOMAIN copy = {k \in DOMAIN File : times[k] > 0}
        /\ \A k \in DOMAIN File : times[k] \in Nat
    BY TransferAssumption DEF TransferAssumption, ReceiverInv
  <2>3. \A k \in DOMAIN File : times'[k] > 0 <=> times[k] > 0 \/ k \in written
    BY <1>10, <2>2
  <2> QED BY <1>9, <2>1, <2>2, <2>3
<1>12. copy' = [k \in DOMAIN copy' |-> File[k]]
  <2>1. \A k \in written : arrived.data[k - arrived.start] = File[k]
    <3>1. ASSUME NEW k \in written PROVE data[k - start] = File[k]
      <4>1. k - start \in 1 .. Len(data) /\ start + (k - start) = k
        BY <1>5, <1>6
      <4> QED BY <1>6, <4>1
    <3> QED BY <1>3, <3>1
  <2>2. \A k \in DOMAIN copy : copy[k] = File[k]
    BY DEF ReceiverInv
  <2> QED BY <1>4, <2>1, <2>2
<1>13. checksum' = ChecksumCompute(Weighed(times'))
  <2> DEFINE before == times
             after == times'
             f == Weighed(before)
             g == Weighed(after)
  <2>1. before \in [DOMAIN File -> Nat] /\ after \in [DOMAIN File -> Nat]
    <3>1. 0 .. arrivals \subseteq Nat /\ 0 .. arrivals' \subseteq Nat
      OBVIOUS
    <3> QED BY <1>8, <3>1 DEF ReceiverInv
  <2>2. \A k \in DOMAIN File : after[k] = IF k \in written THEN before[k] + 1 ELSE before[k]
    BY <1>10
  <2>3. checksum = ChecksumCompute(f) /\ checksum' = ChecksumUpdate(checksum, start, data)
    BY <1>3, <1>4 DEF ReceiverInv
  <2> HIDE DEF before, after
  <2>4. /\ f \in Seq(Nat) /\ Len(f) = size /\ \A k \in 1 .. size : f[k] = before[k] * File[k]
        /\ g \in Seq(Nat) /\ Len(g) = size /\ \A k \in 1 .. size : g[k] = after[k] * File[k]
    BY <2>1, WeighedType DEF size
  <2> HIDE DEF f, g
  <2>5. ASSUME NEW k \in 1 .. Len(f)
        PROVE  IF start < k /\ k <= start + Len(data)
               THEN g[k] = f[k] + data[k - start] ELSE g[k] = f[k]
    <3>1. /\ k \in 1 .. size /\ k \in DOMAIN File
          /\ f[k] = before[k] * File[k] /\ g[k] = after[k] * File[k]
          /\ before[k] \in Nat /\ File[k] \in Nat
      BY <1>6, <2>1, <2>4, FileOctets, ElementOfSeq DEF size
    <3>2. k \in written <=> start < k /\ k <= start + Len(data)
      BY <1>5, <1>6, <3>1
    <3>3. CASE k \in written
      <4>1. (before[k] + 1) * File[k] = before[k] * File[k] + 1 * File[k]
        BY ONLY <3>1, 1 \in Nat, ProductOfSum
      <4>2. 1 * File[k] = File[k]
        BY <3>1
      <4>3. k - start \in 1 .. Len(data) /\ start + (k - start) = k
        BY <1>6, <3>1, <3>2, <3>3
      <4>4. data[k - start] = File[k]
        BY <1>6, <4>3
      <4> QED BY <2>2, <3>1, <3>2, <3>3, <4>1, <4>2, <4>4
    <3>4. CASE k \notin written
      BY <2>2, <3>1, <3>2, <3>4
    <3> QED BY <3>3, <3>4
  <2>6. start + Len(data) <= Len(f) /\ Len(g) = Len(f)
    BY <1>6, <2>4
  <2>7. ChecksumUpdate(ChecksumCompute(f), start, data) = ChecksumCompute(g)
    BY <1>6, <2>4, <2>5, <2>6, SegmentAdds, ZenonT(60)
  <2> QED BY <2>3, <2>7 DEF g, after
<1> QED BY <1>1, <1>4, <1>7, <1>8, <1>11, <1>12, <1>13 DEF ReceiverInv

LEMMA NextIInv == IInv /\ [Next]_vars => IInv'
<1> SUFFICES ASSUME IInv, [Next]_vars PROVE LinkInv' /\ ReceiverInv'
  BY IInvPartsNext
<1>1. LinkInv /\ ReceiverInv
  BY IInvParts
<1>2. CASE UNCHANGED vars
  BY <1>1, <1>2 DEF vars, receiverVars, LinkInv, ReceiverInv
<1>3. ASSUME NEW segment \in Segments, SendSegment(segment)
      PROVE  LinkInv' /\ ReceiverInv'
  <2>1. [kind |-> FILE_DATA, octets |-> FileDataOf[segment]] \in Encoded
    BY DEF Encoded
  <2> QED BY <1>1, <1>3, <2>1, SendKeeps DEF SendSegment
<1>4. CASE SendEof
  <2>1. [kind |-> CFDP_DIRECTIVE_EOF, octets |-> EofOf] \in Encoded
    BY DEF Encoded
  <2> QED BY <1>1, <1>4, <2>1, SendKeeps DEF SendEof
<1>5. ASSUME NEW pdu \in link, Lose(pdu) PROVE LinkInv' /\ ReceiverInv'
  BY <1>1, <1>5, LoseKeeps
<1>6. ASSUME NEW pdu \in link, NEW again \in BOOLEAN, TakeFileData(pdu, again)
      PROVE  LinkInv' /\ ReceiverInv'
  BY <1>1, <1>6, TakeFileDataKeeps
<1>7. ASSUME NEW pdu \in link, NEW again \in BOOLEAN, TakeEof(pdu, again)
      PROVE  LinkInv' /\ ReceiverInv'
  BY <1>1, <1>7, TakeEofKeeps
<1> QED BY <1>2, <1>3, <1>4, <1>5, <1>6, <1>7 DEF Next

(* A whole file has each octet once, and the extra arrivals besides.       *)
LEMMA IInvDecidesEof == IInv => SecondArrivalsDecide
<1> SUFFICES ASSUME ReceiverInv, eof # << >>, copy = File
             PROVE  (ChecksumOctets(checksum) = eof[1].file_checksum)
                      <=> WordSum([k \in DOMAIN File |-> (times[k] - 1) * File[k]]) = 0
  BY IInvParts DEF SecondArrivalsDecide
<1> DEFINE extra == [k \in DOMAIN File |-> times[k] - 1]
           f == File
           g == Weighed(extra)
           h == Weighed(times)
           s == ChecksumCompute(f)
           e == ChecksumCompute(g)
<1>1. \A k \in DOMAIN File : times[k] \in Nat /\ times[k] > 0
  <2>1. arrivals \in Nat /\ times \in [DOMAIN File -> 0 .. arrivals]
    BY TransferAssumption DEF TransferAssumption, ReceiverInv
  <2>2. {k \in DOMAIN File : times[k] > 0} = DOMAIN File
    BY DEF ReceiverInv
  <2> QED BY <2>1, <2>2
<1>2. extra \in [DOMAIN File -> Nat] /\ times \in [DOMAIN File -> Nat]
      /\ \A k \in DOMAIN File : times[k] = 1 + extra[k]
  <2>1. \A k \in DOMAIN File : times[k] - 1 \in Nat
    BY <1>1
  <2>2. times \in [DOMAIN File -> Nat]
    BY <1>1 DEF ReceiverInv
  <2>3. \A k \in DOMAIN File : times[k] = 1 + (times[k] - 1)
    BY <1>1
  <2> QED BY <2>1, <2>2, <2>3
<1>3. g = [k \in DOMAIN File |-> (times[k] - 1) * File[k]]
  BY DEF Weighed
<1> HIDE DEF extra
<1>4. /\ f \in Seq(Nat) /\ Len(f) \in Nat /\ DOMAIN f = 1 .. Len(f)
      /\ \A k \in 1 .. Len(f) : f[k] \in Nat
      /\ g \in Seq(Nat) /\ Len(g) = Len(f) /\ \A k \in 1 .. Len(f) : g[k] = extra[k] * f[k]
      /\ h \in Seq(Nat) /\ Len(h) = Len(f) /\ \A k \in 1 .. Len(f) : h[k] = times[k] * f[k]
  BY <1>2, FileOctets, ElementOfSeq, WeighedType
<1> HIDE DEF g, h
<1>5. ASSUME NEW k \in 1 .. Len(f) PROVE h[k] = f[k] + g[k]
  <2>1. times[k] = 1 + extra[k] /\ extra[k] \in Nat /\ f[k] \in Nat /\ 1 \in Nat
    BY <1>2, <1>4
  <2>2. (1 + extra[k]) * f[k] = 1 * f[k] + extra[k] * f[k]
    BY ONLY <2>1, ProductOfSum
  <2>3. 1 * f[k] = f[k]
    BY <2>1
  <2> QED BY <1>4, <2>1, <2>2, <2>3
<1> HIDE DEF f
<1>6. ChecksumCompute(h) = (s + e) % Modulus
  BY <1>4, <1>5, ComputeOfSum
<1>7. s \in Checksum /\ e \in Checksum
  BY <1>4, SumType, UpdateType DEF ChecksumCompute
<1>8. WordSum(g) = e
  BY <1>4, WordSumIsCompute
<1>9. checksum = (s + e) % Modulus
  BY <1>6 DEF ReceiverInv, h
<1>10. eof[1].file_checksum = ChecksumOctets(s)
  <2> DEFINE pdu == EofIn.pdu
  <2>1. pdu.file_checksum = ChecksumOctets(s)
    BY EofArrives DEF f
  <2>2. eof = << >> \/ eof = <<pdu>>
    BY DEF ReceiverInv
  <2> HIDE DEF pdu, s
  <2>3. eof[1] = pdu
    BY <2>2
  <2> QED BY <2>1, <2>3
<1> HIDE DEF s, e
<1>11. checksum \in Checksum
  <2>1. s + e \in Int
    BY <1>7, SumType
  <2> QED BY <1>9, <2>1, SumType
<1>12. (ChecksumOctets(checksum) = ChecksumOctets(s)) <=> checksum = s
  BY <1>7, <1>11, OctetsTell
<1>13. ((s + e) % Modulus = s) <=> e = 0
  BY <1>7, PartShows
<1> QED BY <1>3, <1>8, <1>9, <1>10, <1>12, <1>13

-----------------------------------------------------------------------------
(* The theorems about the transfer                                         *)

(* What is on the link is what the sending user encodes, every octet       *)
(* written is that of the file, at the positions that have arrived, and    *)
(* the running checksum counts each octet as often as it came.             *)
THEOREM Invariance == Spec => []IInv
<1>1. Init => IInv
  BY InitIInv
<1>2. IInv /\ [Next]_vars => IInv'
  BY NextIInv
<1> QED BY <1>1, <1>2, PTL DEF Spec

(* The PDUs on the link, the copy, the checksum and the decoded EOF PDU    *)
(* stay of their types: no encoder of the sending user returns zero.       *)
THEOREM TypeCorrect == Spec => []TypeOK
<1>1. IInv => TypeOK
  BY DEF IInv
<1> QED BY <1>1, Invariance, PTL

(* However segments overlap, come again, out of order and after losses,    *)
(* cfdp_checksum_update has counted each octet of the file as often as it  *)
(* arrived, in its lane.                                                   *)
THEOREM CountsArrivals == Spec => []ChecksumOfArrivals
<1>1. IInv => ChecksumOfArrivals
  BY DEF IInv
<1> QED BY <1>1, Invariance, PTL

(* The checksum of a whole file is the one of the EOF PDU exactly if what  *)
(* arrived more than once adds up to nothing, modulo 2^32.                 *)
THEOREM DecidedByRepeats == Spec => []SecondArrivalsDecide
<1>1. IInv => SecondArrivalsDecide
  BY IInvDecidesEof
<1> QED BY <1>1, Invariance, PTL
=============================================================================
