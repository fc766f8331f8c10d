---------------------------- MODULE BitmapProofs ----------------------------
(***************************************************************************)
(* Proofs about the bitmap, for every number of bytes and every width of   *)
(* byte and word.                                                          *)
(***************************************************************************)
EXTENDS Bitmap, Digits, FiniteSetTheorems, WellFoundedInduction, TLAPS

-----------------------------------------------------------------------------
(* Powers of two, as the numbers of subsets. *)

LEMMA SubsetsOfInterval ==
  ASSUME NEW n \in Nat
  PROVE  /\ IsFiniteSet(SUBSET (1 .. n))
         /\ Cardinality(SUBSET (1 .. n)) = 2^n
<1>1. 1 \in Int /\ n \in Int /\ (IF 1 > n THEN 0 ELSE n - 1 + 1) = n
  OBVIOUS
<1>2. IsFiniteSet(1 .. n) /\ Cardinality(1 .. n) = n
  BY <1>1, FS_Interval
<1>3. QED
  BY <1>2, FS_SUBSET

(* A subset of m + n elements is one of the first m and one of the others. *)
LEMMA PowerSum ==
  ASSUME NEW m \in Nat, NEW n \in Nat
  PROVE  2^(m + n) = 2^m * 2^n
<1> DEFINE Low == SUBSET (1 .. m)
           Number == SUBSET (1 .. n)
           Both == SUBSET (1 .. m + n)
           low(S) == S \cap 1 .. m
           number(S) == {k \in 1 .. n : k + m \in S}
           both(A, B) == A \cup {k + m : k \in B}
           join == [p \in Low \X Number |-> both(p[1], p[2])]
<1>1. ASSUME NEW A \in Low, NEW B \in Number
      PROVE  both(A, B) \in Both /\ low(both(A, B)) = A /\ number(both(A, B)) = B
  <2>1. ASSUME NEW k \in B PROVE k \in 1 .. n /\ k + m \in 1 .. m + n /\ k + m > m
    BY <1>1
  <2>2. ASSUME NEW x \in A PROVE x \in 1 .. m /\ x \in 1 .. m + n
    BY <1>1
  <2>3. ASSUME NEW k \in 1 .. n, k + m \in both(A, B) PROVE k \in B
    <3>1. k + m \notin A
      BY <2>2
    <3>2. PICK j \in B : k + m = j + m
      BY <2>3, <3>1
    <3>3. j = k
      BY <2>1, <3>2
    <3>4. QED
      BY <3>3
  <2>4. both(A, B) \in Both
    BY <2>1, <2>2
  <2>5. low(both(A, B)) = A
    <3>1. ASSUME NEW x \in both(A, B), x \in 1 .. m PROVE x \in A
      BY <2>1, <3>1
    <3>2. QED
      BY <2>2, <3>1
  <2>6. number(both(A, B)) = B
    BY <2>1, <2>3
  <2>7. QED
    BY <2>4, <2>5, <2>6
<1>2. ASSUME NEW S \in Both
      PROVE  low(S) \in Low /\ number(S) \in Number /\ both(low(S), number(S)) = S
  <2>1. ASSUME NEW x \in S PROVE x \in low(S) \/ \E k \in number(S) : x = k + m
    <3>1. x \in 1 .. m + n
      BY <1>2
    <3>2. CASE x <= m
      BY <3>1, <3>2
    <3>3. CASE x > m
      <4>1. x - m \in 1 .. n /\ (x - m) + m = x
        BY <3>1, <3>3
      <4>2. QED
        BY <4>1
    <3>4. QED
      BY <3>1, <3>2, <3>3
  <2>2. QED
    BY <2>1
<1> HIDE DEF low, number, both
<1>3. join \in [Low \X Number -> Both]
  BY <1>1
<1>4. ASSUME NEW p \in Low \X Number, NEW q \in Low \X Number, join[p] = join[q]
      PROVE  p = q
  <2>1. both(p[1], p[2]) = both(q[1], q[2])
    BY <1>4
  <2>2. p[1] \in Low /\ p[2] \in Number /\ q[1] \in Low /\ q[2] \in Number
    OBVIOUS
  <2>3. p[1] = q[1] /\ p[2] = q[2]
    <3>1. low(both(p[1], p[2])) = p[1] /\ number(both(p[1], p[2])) = p[2]
      BY <1>1, <2>2
    <3>2. low(both(q[1], q[2])) = q[1] /\ number(both(q[1], q[2])) = q[2]
      BY <1>1, <2>2
    <3>3. QED
      BY <2>1, <3>1, <3>2
  <2>4. p = <<p[1], p[2]>> /\ q = <<q[1], q[2]>>
    OBVIOUS
  <2>5. QED
    BY <2>3, <2>4
<1>5. ASSUME NEW S \in Both PROVE \E p \in Low \X Number : join[p] = S
  <2>1. <<low(S), number(S)>> \in Low \X Number
    BY <1>2
  <2>2. join[<<low(S), number(S)>>] = S
    BY <1>2, <2>1
  <2>3. QED
    BY <2>1, <2>2
<1>6. join \in Bijection(Low \X Number, Both)
  BY <1>3, <1>4, <1>5 DEF Bijection, Injection, Surjection, IsInjective
<1>7. /\ IsFiniteSet(Low \X Number)
      /\ Cardinality(Low \X Number) = 2^m * 2^n
  <2>1. IsFiniteSet(Low) /\ Cardinality(Low) = 2^m
    BY SubsetsOfInterval
  <2>2. IsFiniteSet(Number) /\ Cardinality(Number) = 2^n
    BY SubsetsOfInterval
  <2> HIDE DEF Low, Number
  <2>3. QED
    BY <2>1, <2>2, FS_Product
<1>8. Cardinality(Both) = Cardinality(Low \X Number)
  BY <1>6, <1>7, FS_Bijection DEF ExistsBijection
<1>9. m + n \in Nat
  OBVIOUS
<1>10. QED
  BY <1>7, <1>8, <1>9, SubsetsOfInterval

LEMMA PowersOfTwo ==
  ASSUME NEW n \in Nat
  PROVE  2^n \in Nat \ {0} /\ 2^(n + 1) = 2 * 2^n
<1>1. 2^n \in Nat
  BY SubsetsOfInterval, FS_CardinalityType
<1>2. 2^n # 0
  <2>1. {} \in SUBSET (1 .. n)
    OBVIOUS
  <2>2. QED
    BY <2>1, SubsetsOfInterval, FS_EmptySet
<1>3. 2^1 = 2
  OBVIOUS
<1>4. 2^(n + 1) = 2^n * 2^1
  BY PowerSum
<1>5. QED
  BY <1>1, <1>2, <1>3, <1>4

-----------------------------------------------------------------------------
(* The bits of a byte. *)

BitOf(x, r) == (x \div 2^r) % 2 = 1

LEMMA DivUnique ==
  ASSUME NEW b \in Nat \ {0}, NEW q \in Nat, NEW r \in 0 .. b - 1
  PROVE  (q * b + r) \div b = q
<1> DEFINE a == q * b + r
<1>1. a \in Nat
  OBVIOUS
<1>2. PICK k \in Nat, m \in 0 .. b - 1 : k = a \div b /\ a = k * b + m
  BY <1>1, DivMod
<1>3. QED
  BY <1>2, UniqueDigits

LEMMA Parity ==
  ASSUME NEW n \in Nat, NEW m \in Nat
  PROVE  /\ (2 * n) % 2 = 0 /\ (2 * n + 1) % 2 = 1
         /\ (n + 2 * m) % 2 = n % 2
         /\ n % 2 = 0 => \E h \in Nat : n = 2 * h
         /\ n % 2 = 1 => \E h \in Nat : n = 2 * h + 1
<1>1. n % 2 = 0 => n = 2 * (n \div 2) /\ n \div 2 \in Nat
  OBVIOUS
<1>2. n % 2 = 1 => n = 2 * (n \div 2) + 1 /\ n \div 2 \in Nat
  OBVIOUS
<1>3. QED
  BY <1>1, <1>2

(* 2^s for s above r. *)
LEMMA HigherPower ==
  ASSUME NEW r \in Nat, NEW s \in Nat, r < s
  PROVE  \E M \in Nat \ {0} : 2^s = M * (2 * 2^r)
<1>1. s - (r + 1) \in Nat /\ r + 1 \in Nat /\ (s - (r + 1)) + (r + 1) = s
  OBVIOUS
<1>2. 2^s = 2^(s - (r + 1)) * 2^(r + 1)
  BY <1>1, PowerSum
<1>3. QED
  BY <1>1, <1>2, PowersOfTwo

(* Adding the weight of a clear bit sets that bit. *)
LEMMA AddOwn ==
  ASSUME NEW x \in Nat, NEW r \in Nat, ~BitOf(x, r)
  PROVE  BitOf(x + 2^r, r)
<1>1. PICK P \in Nat \ {0} : P = 2^r
  BY PowersOfTwo
<1>2. PICK q \in Nat, l \in 0 .. P - 1 : q = x \div P /\ x = q * P + l
  BY DivMod
<1>3. q % 2 = 0
  <2>1. (x \div 2^r) % 2 # 1
    BY DEF BitOf
  <2>2. q % 2 # 1
    BY <1>1, <1>2, <2>1
  <2>3. QED
    BY <2>2
<1>4. PICK h \in Nat : q = 2 * h
  BY <1>3, Parity
<1>5. x + P = (q + 1) * P + l
  BY <1>2
<1>6. (x + P) \div P = q + 1
  BY <1>5, DivUnique
<1>7. QED
  BY <1>1, <1>4, <1>6, Parity DEF BitOf

(* ... and leaves the lower and the higher ones as they are. *)
LEMMA AddLower ==
  ASSUME NEW x \in Nat, NEW r \in Nat, NEW s \in Nat, s < r
  PROVE  BitOf(x + 2^r, s) <=> BitOf(x, s)
<1>1. PICK S \in Nat \ {0} : S = 2^s
  BY PowersOfTwo
<1>2. PICK M \in Nat \ {0} : 2^r = M * (2 * S)
  BY <1>1, HigherPower
<1>3. PICK q \in Nat, l \in 0 .. S - 1 : q = x \div S /\ x = q * S + l
  BY DivMod
<1>4. x + 2^r = (q + 2 * M) * S + l
  <2>1. M * (2 * S) = (2 * M) * S /\ (q + 2 * M) * S = q * S + (2 * M) * S
    OBVIOUS
  <2>2. q * S \in Nat /\ (2 * M) * S \in Nat
    OBVIOUS
  <2>3. x + 2^r = (q * S + l) + (2 * M) * S
    BY <1>2, <1>3, <2>1
  <2>4. (q * S + l) + (2 * M) * S = (q * S + (2 * M) * S) + l
    BY <2>2
  <2>5. QED
    BY <2>1, <2>3, <2>4
<1>5. (x + 2^r) \div S = q + 2 * M
  BY <1>4, DivUnique
<1>6. (q + 2 * M) % 2 = q % 2
  BY Parity
<1>7. x \div 2^s = q /\ (x + 2^r) \div 2^s = q + 2 * M
  BY <1>1, <1>3, <1>5
<1>8. QED
  BY <1>6, <1>7 DEF BitOf

LEMMA AddHigher ==
  ASSUME NEW x \in Nat, NEW r \in Nat, NEW s \in Nat, r < s, ~BitOf(x, r)
  PROVE  (x + 2^r) \div 2^s = x \div 2^s
<1>1. PICK P \in Nat \ {0} : P = 2^r
  BY PowersOfTwo
<1>2. PICK M \in Nat \ {0} : 2^s = M * (2 * P)
  BY <1>1, HigherPower
<1>3. PICK q \in Nat, l \in 0 .. P - 1 : q = x \div P /\ x = q * P + l
  BY DivMod
<1>4. q % 2 = 0
  <2>1. (x \div 2^r) % 2 # 1
    BY DEF BitOf
  <2>2. q % 2 # 1
    BY <1>1, <1>3, <2>1
  <2>3. QED
    BY <2>2
<1>5. PICK h \in Nat : q = 2 * h
  BY <1>4, Parity
<1>6. PICK u \in Nat, v \in 0 .. M - 1 : h = u * M + v
  <2>1. /\ h \div M \in Nat /\ h % M \in 0 .. M - 1
        /\ h = (h \div M) * M + (h % M)
    BY DivMod
  <2>2. QED
    BY ONLY <2>1
<1> DEFINE T == 2 * P
           S == M * T
<1>7. T \in Nat \ {0} /\ S \in Nat \ {0} /\ S = 2^s
  BY <1>2
<1>8. \A k \in 0 .. T - 1 : v * T + k \in 0 .. S - 1
  <2>1. v \in Nat /\ v < M /\ M \in Nat
    OBVIOUS
  <2> HIDE DEF T
  <2>2. SUFFICES ASSUME NEW k \in 0 .. T - 1 PROVE v * T + k \in 0 .. S - 1
    OBVIOUS
  <2>3. v * T + k < M * T + 0
    BY <1>7, <2>1, DigitOrder
  <2>4. v * T \in Nat /\ M * T \in Nat
    BY <1>7, <2>1
  <2>5. QED
    BY <1>7, <2>3, <2>4
<1>9. x = u * S + (v * T + l) /\ x + P = u * S + (v * T + (l + P))
  <2>1. q * P = h * T
    BY <1>5
  <2>2. h * T = (u * M) * T + v * T /\ (u * M) * T = u * S
    <3> HIDE DEF T
    <3>1. u * M \in Nat /\ v \in Nat /\ T \in Nat
      BY <1>7
    <3>2. (u * M + v) * T = (u * M) * T + v * T
      BY <3>1
    <3>3. (u * M) * T = u * (M * T)
      BY <3>1
    <3>4. QED
      BY <1>6, <3>2, <3>3
  <2>3. u * S \in Nat /\ v * T \in Nat
    BY <1>7
  <2> HIDE DEF T, S
  <2>4. QED
    BY <1>3, <2>1, <2>2, <2>3
<1>10. l \in 0 .. T - 1 /\ l + P \in 0 .. T - 1
  OBVIOUS
<1>11. (u * S + (v * T + l)) \div S = u /\ (u * S + (v * T + (l + P))) \div S = u
  <2> HIDE DEF T, S
  <2>1. QED
    BY <1>7, <1>8, <1>10, DivUnique
<1>12. QED
  BY <1>1, <1>7, <1>9, <1>11

LEMMA AddWeight ==
  ASSUME NEW x \in Nat, NEW r \in Nat, ~BitOf(x, r), NEW s \in Nat
  PROVE  BitOf(x + 2^r, s) <=> s = r \/ BitOf(x, s)
<1>1. CASE s = r
  BY <1>1, AddOwn
<1>2. CASE s < r
  BY <1>2, AddLower
<1>3. CASE r < s
  <2>1. (x + 2^r) \div 2^s = x \div 2^s
    BY <1>3, AddHigher
  <2>2. BitOf(x + 2^r, s) <=> BitOf(x, s)
    BY Zenon, <2>1 DEF BitOf
  <2>3. s # r
    BY <1>3
  <2>4. QED
    BY <2>2, <2>3
<1>4. QED
  BY <1>1, <1>2, <1>3

LEMMA RemoveWeight ==
  ASSUME NEW x \in Nat, NEW r \in Nat, BitOf(x, r)
  PROVE  /\ x - 2^r \in Nat
         /\ \A s \in Nat : BitOf(x - 2^r, s) <=> s # r /\ BitOf(x, s)
<1>1. PICK P \in Nat \ {0} : P = 2^r
  BY PowersOfTwo
<1>2. PICK q \in Nat, l \in 0 .. P - 1 : q = x \div P /\ x = q * P + l
  BY DivMod
<1>3. q % 2 = 1
  BY <1>1, <1>2 DEF BitOf
<1>4. PICK h \in Nat : q = 2 * h + 1
  BY <1>3, Parity
<1>5. x - P = (2 * h) * P + l /\ (2 * h) * P \in Nat
  <2>1. q * P = (2 * h) * P + P
    BY <1>4
  <2>2. (2 * h) * P \in Nat
    OBVIOUS
  <2>3. QED
    BY <1>2, <2>1, <2>2
<1>6. PICK y \in Nat : y = x - P
  BY <1>5
<1>7. (x - P) \div P = 2 * h
  BY <1>5, DivUnique
<1>8. ~BitOf(y, r)
  <2>1. (2 * h) % 2 = 0
    BY Parity
  <2>2. (y \div 2^r) % 2 = 0
    BY <1>1, <1>6, <1>7, <2>1
  <2>3. QED
    BY <2>2 DEF BitOf
<1>9. y + 2^r = x
  BY <1>1, <1>6
<1>10. \A s \in Nat : BitOf(x, s) <=> s = r \/ BitOf(y, s)
  BY <1>8, <1>9, AddWeight
<1>11. QED
  BY <1>1, <1>6, <1>8, <1>10

LEMMA AddFits ==
  ASSUME NEW x \in Byte, NEW r \in 0 .. KBitsPerByte - 1, ~BitOf(x, r)
  PROVE  x + 2^r \in Byte
<1>1. PICK S \in Nat \ {0} : S = 2^KBitsPerByte
  BY PowersOfTwo, BitmapGeometry
<1>2. x \in 0 .. S - 1 /\ r \in Nat /\ r < KBitsPerByte /\ KBitsPerByte \in Nat
  BY <1>1, BitmapGeometry DEF Byte
<1>3. x \div S = 0
  BY <1>2
<1>4. PICK y \in Nat : y = x + 2^r
  BY <1>2, PowersOfTwo
<1>5. y \div S = 0
  <2>1. x \in Nat
    BY <1>2
  <2>2. (x + 2^r) \div 2^KBitsPerByte = x \div 2^KBitsPerByte
    BY <1>2, <2>1, AddHigher
  <2>3. QED
    BY <1>1, <1>3, <1>4, <2>2
<1>6. y < S
  BY <1>5, DivMod
<1>7. QED
  BY <1>1, <1>4, <1>6 DEF Byte

(* The byte that is all ones, and the byte that is zero. *)
LEMMA FullByte ==
  ASSUME NEW r \in 0 .. KBitsPerByte - 1
  PROVE  BitOf(2^KBitsPerByte - 1, r)
<1>1. PICK P \in Nat \ {0} : P = 2^r
  BY PowersOfTwo
<1>2. PICK M \in Nat \ {0} : 2^KBitsPerByte = M * (2 * P)
  <2>1. r \in Nat /\ KBitsPerByte \in Nat /\ r < KBitsPerByte
    BY BitmapGeometry
  <2>2. \E M \in Nat \ {0} : 2^KBitsPerByte = M * (2 * 2^r)
    BY <2>1, HigherPower
  <2>3. QED
    BY <1>1, <2>2
<1>3. M * (2 * P) - 1 = (2 * (M - 1) + 1) * P + (P - 1)
  <2>1. M * (2 * P) = (2 * M) * P /\ (2 * (M - 1) + 1) * P = (2 * M) * P - P
    OBVIOUS
  <2>2. (2 * M) * P \in Nat
    OBVIOUS
  <2>3. QED
    BY <2>1, <2>2
<1>4. M - 1 \in Nat /\ 2 * (M - 1) + 1 \in Nat /\ P - 1 \in 0 .. P - 1
  OBVIOUS
<1>5. (M * (2 * P) - 1) \div P = 2 * (M - 1) + 1
  BY <1>3, <1>4, DivUnique
<1>6. (2 * (M - 1) + 1) % 2 = 1
  BY <1>4, Parity
<1>7. QED
  BY <1>1, <1>2, <1>5, <1>6 DEF BitOf

LEMMA ZeroByte ==
  ASSUME NEW r \in Nat
  PROVE  ~BitOf(0, r) /\ 0 \in Byte
<1>1. PICK P \in Nat \ {0} : P = 2^r
  BY PowersOfTwo
<1>2. 0 \div P = 0
  OBVIOUS
<1>3. 2^KBitsPerByte \in Nat \ {0}
  BY PowersOfTwo, BitmapGeometry
<1>4. QED
  BY <1>1, <1>2, <1>3 DEF BitOf, Byte

-----------------------------------------------------------------------------
(* The bits of the bitmap. *)

Bytes == [0 .. Payload - 1 -> Byte]
Indices == 0 .. NBits - 1

LEMMA Place ==
  ASSUME NEW i \in Indices
  PROVE  /\ i \div KBitsPerByte \in 0 .. Payload - 1
         /\ i % KBitsPerByte \in 0 .. KBitsPerByte - 1 /\ i % KBitsPerByte \in Nat
         /\ i = (i \div KBitsPerByte) * KBitsPerByte + (i % KBitsPerByte)
<1>1. NBits \in Nat /\ i \in Nat /\ i < NBits
  BY BitmapGeometry DEF Indices, NBits
<1>2. PICK q \in Nat, r \in 0 .. KBitsPerByte - 1 :
        q = i \div KBitsPerByte /\ r = i % KBitsPerByte /\ i = q * KBitsPerByte + r
  <2>1. KBitsPerByte \in Nat \ {0}
    BY BitmapGeometry
  <2>2. /\ i \div KBitsPerByte \in Nat /\ i % KBitsPerByte \in 0 .. KBitsPerByte - 1
        /\ i = (i \div KBitsPerByte) * KBitsPerByte + (i % KBitsPerByte)
    BY <1>1, <2>1, DivMod
  <2>3. QED
    BY <2>2
<1>3. q < Payload
  <2>1. SUFFICES ASSUME Payload <= q PROVE FALSE
    BY <1>2, BitmapGeometry
  <2>2. Payload * KBitsPerByte <= q * KBitsPerByte
    BY <2>1, BitmapGeometry
  <2>3. q * KBitsPerByte \in Nat /\ Payload * KBitsPerByte \in Nat
    BY BitmapGeometry
  <2>4. QED
    BY <1>1, <1>2, <2>2, <2>3 DEF NBits
<1>4. QED
  BY <1>2, <1>3, BitmapGeometry

LEMMA CheckIsBit ==
  ASSUME NEW d, NEW i
  PROVE  check(d, i) <=> BitOf(d[i \div KBitsPerByte], i % KBitsPerByte)
  BY DEF check, BitOf

(* A change of one byte that changes one of its bits changes one bit of the *)
(* bitmap.                                                                  *)
LEMMA OneBitChanges ==
  ASSUME NEW d \in Bytes, NEW i \in Indices, NEW y \in Byte, NEW e,
         e = [d EXCEPT ![i \div KBitsPerByte] = y],
         \A s \in Nat : s # i % KBitsPerByte =>
                        (BitOf(y, s) <=> BitOf(d[i \div KBitsPerByte], s))
  PROVE  /\ e \in Bytes
         /\ check(e, i) <=> BitOf(y, i % KBitsPerByte)
         /\ \A j \in Indices : j # i => (check(e, j) <=> check(d, j))
<1>1. PICK b \in 0 .. Payload - 1, r \in Nat :
        b = i \div KBitsPerByte /\ r = i % KBitsPerByte /\ i = b * KBitsPerByte + r
  BY Place
<1>2. e \in Bytes /\ e[b] = y /\ \A c \in 0 .. Payload - 1 : c # b => e[c] = d[c]
  BY <1>1 DEF Bytes
<1>3. check(e, i) <=> BitOf(y, r)
  BY <1>1, <1>2, CheckIsBit
<1>4. ASSUME NEW j \in Indices, j # i PROVE check(e, j) <=> check(d, j)
  <2>1. PICK c \in 0 .. Payload - 1, t \in Nat :
          c = j \div KBitsPerByte /\ t = j % KBitsPerByte /\ j = c * KBitsPerByte + t
    BY Place
  <2>2. check(e, j) <=> BitOf(e[c], t)
    BY <2>1, CheckIsBit
  <2>3. check(d, j) <=> BitOf(d[c], t)
    BY <2>1, CheckIsBit
  <2>4. CASE c # b
    BY <1>2, <2>2, <2>3, <2>4
  <2>5. CASE c = b
    <3>1. t # r
      BY <1>1, <1>4, <2>1, <2>5
    <3>2. BitOf(y, t) <=> BitOf(d[b], t)
      BY <1>1, <3>1
    <3>3. QED
      BY <1>2, <2>2, <2>3, <2>5, <3>2
  <2>6. QED
    BY <2>4, <2>5
<1>5. QED
  BY <1>1, <1>2, <1>3, <1>4

LEMMA SetBit ==
  ASSUME NEW d \in Bytes, NEW i \in Indices
  PROVE  /\ set(d, i) \in Bytes
         /\ \A j \in Indices : check(set(d, i), j) <=> j = i \/ check(d, j)
<1>1. CASE check(d, i)
  BY <1>1 DEF set
<1>2. CASE ~check(d, i)
  <2>1. PICK b \in 0 .. Payload - 1, r \in 0 .. KBitsPerByte - 1 :
          b = i \div KBitsPerByte /\ r = i % KBitsPerByte /\ r \in Nat
    BY Place
  <2>2. d[b] \in Byte /\ d[b] \in Nat
    <3>1. 2^KBitsPerByte \in Nat
      BY PowersOfTwo, BitmapGeometry
    <3>2. QED
      BY <3>1 DEF Bytes, Byte
  <2>3. ~BitOf(d[b], r)
    BY <1>2, <2>1, CheckIsBit
  <2>4. PICK y \in Byte : y = d[b] + 2^r
    BY <2>2, <2>3, AddFits
  <2>5. \A s \in Nat : BitOf(y, s) <=> s = r \/ BitOf(d[b], s)
    BY <2>1, <2>2, <2>3, <2>4, AddWeight
  <2>6. set(d, i) = [d EXCEPT ![i \div KBitsPerByte] = y]
    BY <1>2, <2>1, <2>4 DEF set, Bytes
  <2>7. /\ \A s \in Nat : s # i % KBitsPerByte =>
                         (BitOf(y, s) <=> BitOf(d[i \div KBitsPerByte], s))
        /\ BitOf(y, i % KBitsPerByte)
    BY <2>1, <2>5
  <2>8. y \in Byte
    OBVIOUS
  <2>9. QED
    BY <1>2, <2>6, <2>7, <2>8, OneBitChanges
<1>3. QED
  BY <1>1, <1>2

LEMMA ClearBit ==
  ASSUME NEW d \in Bytes, NEW i \in Indices
  PROVE  /\ clear(d, i) \in Bytes
         /\ \A j \in Indices : check(clear(d, i), j) <=> j # i /\ check(d, j)
<1>1. CASE ~check(d, i)
  BY <1>1 DEF clear
<1>2. CASE check(d, i)
  <2>1. PICK b \in 0 .. Payload - 1, r \in 0 .. KBitsPerByte - 1 :
          b = i \div KBitsPerByte /\ r = i % KBitsPerByte /\ r \in Nat
    BY Place
  <2>2. d[b] \in Byte /\ d[b] \in Nat /\ \A y \in Nat : y <= d[b] => y \in Byte
    <3>1. 2^KBitsPerByte \in Nat
      BY PowersOfTwo, BitmapGeometry
    <3>2. QED
      BY <3>1 DEF Bytes, Byte
  <2>3. BitOf(d[b], r)
    BY <1>2, <2>1, CheckIsBit
  <2>4. PICK y \in Nat : y = d[b] - 2^r
    BY <2>1, <2>2, <2>3, RemoveWeight
  <2>5. y \in Byte
    <3>1. 2^r \in Nat
      BY <2>1, PowersOfTwo
    <3>2. y <= d[b]
      BY <2>2, <2>4, <3>1
    <3>3. QED
      BY <2>2, <3>2
  <2>6. \A s \in Nat : BitOf(y, s) <=> s # r /\ BitOf(d[b], s)
    BY <2>1, <2>2, <2>3, <2>4, RemoveWeight
  <2>7. clear(d, i) = [d EXCEPT ![i \div KBitsPerByte] = y]
    BY <1>2, <2>1, <2>4 DEF clear, Bytes
  <2>8. /\ \A s \in Nat : s # i % KBitsPerByte =>
                         (BitOf(y, s) <=> BitOf(d[i \div KBitsPerByte], s))
        /\ ~BitOf(y, i % KBitsPerByte)
    BY <2>1, <2>6
  <2>9. QED
    BY <1>2, <2>5, <2>7, <2>8, OneBitChanges
<1>3. QED
  BY <1>1, <1>2

(* zeroed() clears every bit. *)
LEMMA ZeroedBits ==
  LET d == [b \in 0 .. Payload - 1 |-> 0]
  IN d \in Bytes /\ \A i \in Indices : ~check(d, i)
<1> DEFINE d == [b \in 0 .. Payload - 1 |-> 0]
<1>1. 0 \in Byte
  <2>1. 0 \in Nat
    OBVIOUS
  <2>2. QED
    BY <2>1, ZeroByte
<1>2. d \in Bytes
  BY <1>1 DEF Bytes
<1>3. ASSUME NEW i \in Indices PROVE ~check(d, i)
  <2>1. d[i \div KBitsPerByte] = 0 /\ i % KBitsPerByte \in Nat
    BY Place
  <2>2. QED
    BY <2>1, CheckIsBit, ZeroByte
<1>4. QED
  BY <1>2, <1>3

-----------------------------------------------------------------------------
(* Searching. *)

LEMMA Least ==
  ASSUME NEW S \in SUBSET Nat, S # {}
  PROVE  \E i \in S : \A j \in S : i <= j
<1>1. PICK i \in S : \A j \in S : ~(<<j, i>> \in OpToRel(<, Nat))
  BY NatLessThanWellFounded, WFMin
<1>2. ASSUME NEW j \in S PROVE i <= j
  <2>1. <<j, i>> \in Nat \X Nat /\ j \in Nat /\ i \in Nat
    OBVIOUS
  <2>2. ~(j < i)
    BY <1>1, <2>1 DEF OpToRel
  <2>3. QED
    BY <2>1, <2>2
<1>3. QED
  BY <1>2

(* A word that is skipped has no clear bit. *)
LEMMA FullWord ==
  ASSUME NEW d \in Bytes, NEW w \in Nat, AllOnes(d, w),
         NEW i \in Indices, i \in w * WordBits .. (w + 1) * WordBits - 1
  PROVE  check(d, i)
<1>1. /\ KBitsPerByte \in Nat \ {0} /\ KBytesPerWord \in Nat \ {0}
      /\ WordBits \in Nat /\ i \in Nat
  BY BitmapGeometry DEF WordBits, Indices, NBits
<1>2. PICK k \in 0 .. WordBits - 1 : i = w * WordBits + k
  <2>1. (w + 1) * WordBits = w * WordBits + WordBits /\ w * WordBits \in Nat
    BY <1>1
  <2>2. i - w * WordBits \in 0 .. WordBits - 1
    BY <1>1, <2>1
  <2>3. QED
    BY <1>1, <2>1, <2>2
<1>3. PICK a \in Nat, r \in 0 .. KBitsPerByte - 1 : k = a * KBitsPerByte + r
  <2>1. k \in Nat
    BY <1>1
  <2>2. QED
    BY <1>1, <2>1, DivMod
<1>4. a \in 0 .. KBytesPerWord - 1
  <2>1. SUFFICES ASSUME KBytesPerWord <= a PROVE FALSE
    BY <1>1
  <2>2. KBytesPerWord * KBitsPerByte <= a * KBitsPerByte
    BY <1>1, <2>1
  <2>3. a * KBitsPerByte \in Nat /\ KBytesPerWord * KBitsPerByte \in Nat
    BY <1>1
  <2>4. QED
    BY <1>1, <1>3, <2>2, <2>3 DEF WordBits
<1>5. i = (w * KBytesPerWord + a) * KBitsPerByte + r
  <2>1. /\ w * (KBytesPerWord * KBitsPerByte) = (w * KBytesPerWord) * KBitsPerByte
        /\ (w * KBytesPerWord + a) * KBitsPerByte
             = (w * KBytesPerWord) * KBitsPerByte + a * KBitsPerByte
    BY <1>1
  <2>2. (w * KBytesPerWord) * KBitsPerByte \in Nat /\ a * KBitsPerByte \in Nat
    BY <1>1
  <2>3. QED
    BY <1>2, <1>3, <2>1, <2>2 DEF WordBits
<1>6. PICK b \in Nat, t \in 0 .. KBitsPerByte - 1 :
        b = i \div KBitsPerByte /\ t = i % KBitsPerByte /\ i = b * KBitsPerByte + t
  BY <1>1, Place
<1>7. w * KBytesPerWord + a \in Nat
  BY <1>1
<1>8. b = w * KBytesPerWord + a
  BY <1>1, <1>5, <1>6, <1>7, UniqueDigits
<1>9. d[b] = 2^KBitsPerByte - 1
  BY <1>4, <1>8 DEF AllOnes
<1>10. BitOf(2^KBitsPerByte - 1, t)
  BY FullByte
<1>11. QED
  BY <1>6, <1>9, <1>10, CheckIsBit

(* Where the search of the whole words ends: the remaining bits lead from   *)
(* there to the bound, unless the bound is behind the payload.              *)
LEMMA SearchedEnds ==
  ASSUME NEW n \in 0 .. MaxBound
  PROVE  /\ num_words(n) \in Nat /\ FirstRemaining(n) \in Nat
         /\ num_words(n) * WordBits = FirstRemaining(n)
         /\ FirstRemaining(n) <= n /\ FirstRemaining(n) <= NBits
         /\ EndRemaining(n) \in Nat
         /\ n <= NBits => EndRemaining(n) = n
         /\ n > NBits => FirstRemaining(n) = NBits
<1>1. WordBits \in Nat \ {0} /\ NBits \in Nat /\ n \in Nat
  BY BitmapGeometry DEF WordBits, NBits, MaxBound
<1>2. num_remaining_bits(n) \in Nat
  BY <1>1, DivMod DEF num_remaining_bits
<1>3. CASE n <= NBits
  <2>1. num_words(n) = n \div WordBits
    BY <1>1, <1>3 DEF num_words, refined_bits
  <2>2. /\ n \div WordBits \in Nat /\ n % WordBits \in 0 .. WordBits - 1
        /\ n = (n \div WordBits) * WordBits + (n % WordBits)
    BY <1>1, DivMod
  <2>3. num_words(n) * WordBits \in Nat
    BY <1>1, <2>1, <2>2
  <2>4. n = num_words(n) * WordBits + num_remaining_bits(n)
    BY <2>1, <2>2 DEF num_remaining_bits
  <2>5. QED
    BY <1>1, <1>2, <1>3, <2>1, <2>2, <2>3, <2>4
       DEF FirstRemaining, EndRemaining
<1>4. CASE n > NBits
  <2>1. PICK k \in Nat : Payload = k * KBytesPerWord
    <3>1. /\ Payload \div KBytesPerWord \in Nat
          /\ Payload = (Payload \div KBytesPerWord) * KBytesPerWord + 0
      BY BitmapGeometry, DivMod
    <3>2. (Payload \div KBytesPerWord) * KBytesPerWord \in Nat
      BY <3>1, BitmapGeometry
    <3>3. QED
      BY <3>1, <3>2
  <2>2. NBits = k * WordBits
    BY <2>1, BitmapGeometry DEF NBits, WordBits
  <2>3. NBits \div WordBits = k
    <3>1. NBits = k * WordBits + 0 /\ 0 \in 0 .. WordBits - 1
      BY <1>1, <2>2
    <3>2. (k * WordBits + 0) \div WordBits = k
      BY <1>1, <3>1, DivUnique
    <3>3. QED
      BY <3>1, <3>2
  <2>4. num_words(n) = k
    BY <1>1, <1>4, <2>3 DEF num_words, refined_bits
  <2>5. QED
    BY <1>1, <1>2, <1>4, <2>1, <2>2, <2>4
       DEF FirstRemaining, EndRemaining
<1>5. QED
  BY <1>1, <1>3, <1>4

(* The words and the tail that are searched are the clear bits below n, in *)
(* two parts of which the first lies below the second.                      *)
LEMMA SearchedBits ==
  ASSUME NEW d \in Bytes, NEW n \in 0 .. MaxBound
  PROVE  /\ FreeInWords(d, n) \cup FreeInTail(d, n) = {i \in Indices : i < n /\ ~check(d, i)}
         /\ \A i \in FreeInWords(d, n), j \in FreeInTail(d, n) : i < j
<1> DEFINE q == num_words(n)
<1>1. WordBits \in Nat \ {0} /\ NBits \in Nat /\ n \in Nat
  BY BitmapGeometry DEF WordBits, NBits, MaxBound
<1>2. /\ q \in Nat /\ q * WordBits \in Nat /\ q * WordBits <= n
      /\ q * WordBits <= NBits
  BY SearchedEnds
<1> HIDE DEF q
<1>3. ASSUME NEW i \in FreeInWords(d, n)
      PROVE  i \in Indices /\ i < q * WordBits /\ ~check(d, i)
  <2>1. PICK w \in 0 .. q - 1 : i \in w * WordBits .. (w + 1) * WordBits - 1 /\ ~check(d, i)
    BY DEF FreeInWords, q
  <2>2. w \in Nat /\ w + 1 <= q
    BY <1>2
  <2>3. (w + 1) * WordBits <= q * WordBits
    BY <1>1, <1>2, <2>2
  <2>4. w * WordBits \in Nat /\ (w + 1) * WordBits \in Nat
    BY <1>1, <2>2
  <2>5. i \in Nat /\ i < (w + 1) * WordBits
    BY <2>1, <2>4
  <2>6. QED
    BY <1>1, <1>2, <2>1, <2>3, <2>4, <2>5 DEF Indices
<1>4. ASSUME NEW i \in Indices, i < q * WordBits, ~check(d, i)
      PROVE  i \in FreeInWords(d, n)
  <2>1. i \in Nat
    BY <1>1 DEF Indices
  <2>2. PICK w \in Nat, k \in 0 .. WordBits - 1 : i = w * WordBits + k
    BY <1>1, <2>1, DivMod
  <2>3. w < q
    <3>1. SUFFICES ASSUME q <= w PROVE FALSE
      BY <1>2
    <3>2. q * WordBits <= w * WordBits /\ w * WordBits \in Nat
      BY <1>1, <1>2, <3>1
    <3>3. QED
      BY <1>2, <1>4, <2>1, <2>2, <3>2
  <2>4. i \in w * WordBits .. (w + 1) * WordBits - 1
    <3>1. (w + 1) * WordBits = w * WordBits + WordBits /\ w * WordBits \in Nat
      BY <1>1
    <3>2. QED
      BY <1>1, <2>1, <2>2, <3>1
  <2>5. ~AllOnes(d, w)
    BY <1>4, <2>4, FullWord
  <2>6. w \in 0 .. q - 1
    BY <1>2, <2>3
  <2>7. QED
    BY <1>4, <2>4, <2>5, <2>6 DEF FreeInWords, q
<1>5. ASSUME NEW i
      PROVE  i \in FreeInTail(d, n) <=>
               i \in Indices /\ i < n /\ ~(i < q * WordBits) /\ ~check(d, i)
  <2> DEFINE first == FirstRemaining(n)
             end == EndRemaining(n)
  <2>1. /\ first \in Nat /\ end \in Nat /\ first = q * WordBits
        /\ n <= NBits => end = n
        /\ n > NBits => first = NBits
    BY SearchedEnds DEF q
  <2>2. i \in FreeInTail(d, n) <=> i \in first .. end - 1 /\ i < NBits /\ ~check(d, i)
    BY Zenon DEF FreeInTail
  <2> HIDE DEF first, end
  <2>3. QED
    BY <1>1, <2>1, <2>2 DEF Indices
<1>6. \A i \in Indices : i < q * WordBits => i < n
  BY <1>1, <1>2 DEF Indices
<1>7. \A i \in Indices : i \in Nat
  BY <1>1 DEF Indices
<1>8. \A i \in FreeInWords(d, n), j \in FreeInTail(d, n) : i < j
  BY <1>2, <1>3, <1>5, <1>7
<1>9. QED
  BY <1>3, <1>4, <1>5, <1>6, <1>8

(* The search returns the lowest clear bit below the bound, if there is one. *)
LEMMA SearchFinds ==
  ASSUME NEW d \in Bytes, NEW n \in 0 .. MaxBound
  PROVE  LET clean == {i \in Indices : i < n /\ ~check(d, i)}
             found == find_first_free_w_bound(d, n)
         IN IF clean = {} THEN found = None
                          ELSE found \in clean /\ \A j \in clean : found <= j
<1> DEFINE clean == {i \in Indices : i < n /\ ~check(d, i)}
           F == FreeInWords(d, n)
           T == FreeInTail(d, n)
           least(S) == CHOOSE i \in S : \A j \in S : i <= j
<1>1. clean = F \cup T /\ \A i \in F, j \in T : i < j
  BY SearchedBits
<1>2. clean \in SUBSET Nat
  BY BitmapGeometry DEF Indices, NBits
<1>3. find_first_free_w_bound(d, n) =
        CASE F # {} -> least(F) [] F = {} /\ T # {} -> least(T) [] OTHER -> None
  BY DEF find_first_free_w_bound
<1>4. ASSUME NEW S \in SUBSET Nat, S # {}
      PROVE  least(S) \in S /\ \A j \in S : least(S) <= j
  BY <1>4, Least
<1> HIDE DEF F, T, least, clean
<1>5. CASE F # {}
  <2>1. find_first_free_w_bound(d, n) = least(F)
    BY <1>3, <1>5
  <2>2. least(F) \in F /\ \A j \in F : least(F) <= j
    BY <1>1, <1>2, <1>4, <1>5
  <2>3. \A j \in T : least(F) <= j
    BY <1>1, <1>2, <2>2
  <2>4. QED
    BY <1>1, <2>1, <2>2, <2>3 DEF clean
<1>6. CASE F = {} /\ T # {}
  <2>1. find_first_free_w_bound(d, n) = least(T) /\ clean = T
    BY <1>1, <1>3, <1>6
  <2>2. least(T) \in T /\ \A j \in T : least(T) <= j
    BY <1>1, <1>2, <1>4, <1>6
  <2>3. QED
    BY <1>6, <2>1, <2>2 DEF clean
<1>7. CASE F = {} /\ T = {}
  BY <1>1, <1>3, <1>7 DEF clean
<1>8. QED
  BY <1>5, <1>6, <1>7

-----------------------------------------------------------------------------
(* Type correctness. *)

LEMMA CountBound ==
  ASSUME NEW S \in SUBSET Indices
  PROVE  Cardinality(S) \in 0 .. NBits
<1>1. NBits \in Nat /\ 0 \in Int /\ NBits - 1 \in Int
      /\ (IF 0 > NBits - 1 THEN 0 ELSE NBits - 1 - 0 + 1) = NBits
  BY BitmapGeometry DEF NBits
<1>2. IsFiniteSet(Indices) /\ Cardinality(Indices) = NBits
  BY <1>1, FS_Interval DEF Indices
<1>3. IsFiniteSet(S) /\ Cardinality(S) <= NBits
  BY <1>2, FS_Subset
<1>4. Cardinality(S) \in Nat
  BY <1>3, FS_CardinalityType
<1>5. QED
  BY <1>1, <1>3, <1>4

LEMMA InitTyped == Init => TypeOK
  BY DEF Init, TypeOK, Call

LEMMA NextTyped == TypeOK /\ [Next]_vars => TypeOK'
<1> SUFFICES ASSUME TypeOK, [Next]_vars PROVE TypeOK'
  OBVIOUS
<1>1. data \in Bytes /\ NBits \in Nat
  BY BitmapGeometry DEF TypeOK, Bytes, NBits
<1>2. ASSUME NEW op, NEW arg, NEW val \in 0 .. NBits \cup {None}, data' \in Bytes,
             ret' = Call(op, arg, val)
      PROVE  TypeOK'
  BY <1>2 DEF TypeOK, Bytes, Byte, NBits, Call
<1>3. None \in 0 .. NBits \cup {None}
  OBVIOUS
<1>4. CASE Zeroed
  <2>1. data' \in Bytes
    BY <1>4, ZeroedBits DEF Zeroed
  <2>2. QED
    BY <1>2, <1>3, <1>4, <2>1 DEF Zeroed
<1>5. CASE CountOnes
  <2>1. count_ones(data) \in 0 .. NBits
    BY CountBound DEF count_ones, Indices
  <2>2. QED
    BY <1>1, <1>2, <1>5, <2>1 DEF CountOnes
<1>6. ASSUME NEW index \in 0 .. NBits - 1, Set(index) PROVE TypeOK'
  <2>1. data' \in Bytes
    BY <1>1, <1>6, SetBit DEF Set, Indices
  <2>2. QED
    BY <1>2, <1>3, <1>6, <2>1 DEF Set
<1>7. ASSUME NEW index \in 0 .. NBits - 1, Clear(index) PROVE TypeOK'
  <2>1. data' \in Bytes
    BY <1>1, <1>7, ClearBit DEF Clear, Indices
  <2>2. QED
    BY <1>2, <1>3, <1>7, <2>1 DEF Clear
<1>8. ASSUME NEW index \in 0 .. NBits - 1, Check(index) PROVE TypeOK'
  <2>1. (IF check(data, index) THEN 1 ELSE 0) \in 0 .. NBits \cup {None}
    BY <1>1
  <2>2. QED
    BY <1>1, <1>2, <1>8, <2>1 DEF Check
<1>9. ASSUME NEW bits \in 0 .. MaxBound, FindFirstFree(bits) PROVE TypeOK'
  <2>1. find_first_free_w_bound(data, bits) \in 0 .. NBits \cup {None}
    <3>1. \/ find_first_free_w_bound(data, bits) = None
          \/ find_first_free_w_bound(data, bits) \in Indices
      BY <1>1, SearchFinds
    <3>2. QED
      BY <1>1, <3>1 DEF Indices
  <2>2. QED
    BY <1>1, <1>2, <1>9, <2>1 DEF FindFirstFree
<1>10. ASSUME NEW bits \in 0 .. NBits, CountZerosToBound(bits) PROVE TypeOK'
  <2>1. {i \in 0 .. bits - 1 : ~check(data, i)} \in SUBSET Indices
    BY <1>1 DEF Indices
  <2>2. count_zeros_to_bound(data, bits) \in 0 .. NBits
    BY <2>1, CountBound DEF count_zeros_to_bound
  <2>3. QED
    BY <1>1, <1>2, <1>10, <2>2 DEF CountZerosToBound
<1>11. CASE UNCHANGED vars
  BY <1>11 DEF vars, TypeOK
<1>12. ASSUME NEW bits \in 0 .. MaxBound, FindFirstFreeAborts(bits) PROVE TypeOK'
  BY <1>1, <1>2, <1>3, <1>12 DEF FindFirstFreeAborts
<1>13. QED
  BY <1>4, <1>5, <1>6, <1>7, <1>8, <1>9, <1>10, <1>11, <1>12 DEF Next, Operation

(* No operation makes a byte overflow into its neighbour, and every result  *)
(* is a position, a number of bits, or nothing.                             *)
THEOREM TypeCorrect == Spec => []TypeOK
BY InitTyped, NextTyped, PTL DEF Spec

-----------------------------------------------------------------------------
(* The bytes implement a set of positions. *)

LEMMA OperationRefines == TypeOK /\ Operation => Abstract!Operation
<1> SUFFICES ASSUME TypeOK, Operation PROVE Abstract!Operation
  OBVIOUS
<1>1. data \in Bytes /\ NBits \in Nat
  BY BitmapGeometry DEF TypeOK, Bytes, NBits
<1>2. \A S : Abstract!Cardinality(S) = Cardinality(S)
  BY Zenon DEF Abstract!Cardinality, Cardinality
<1>3. CASE Zeroed
  <2>1. {i \in 0 .. NBits - 1 : check(data, i)}' = {}
    BY <1>3, ZeroedBits DEF Zeroed, Indices
  <2>2. QED
    BY <1>3, <2>1 DEF Zeroed, Abstract!Operation, Abstract!Clean, Abstract!Call, Call
<1>4. CASE CountOnes
  BY <1>2, <1>4 DEF CountOnes, count_ones, Abstract!Operation, Abstract!CountSet,
     Abstract!Call, Call
<1>5. ASSUME NEW index \in 0 .. NBits - 1, Set(index) PROVE Abstract!Operation
  <2>1. {i \in 0 .. NBits - 1 : check(data, i)}'
          = {i \in 0 .. NBits - 1 : check(data, i)} \cup {index}
    BY <1>1, <1>5, SetBit DEF Set, Indices
  <2>2. QED
    BY <1>5, <2>1 DEF Set, Abstract!Operation, Abstract!Add, Abstract!Positions,
       Abstract!Call, Call
<1>6. ASSUME NEW index \in 0 .. NBits - 1, Clear(index) PROVE Abstract!Operation
  <2>1. {i \in 0 .. NBits - 1 : check(data, i)}'
          = {i \in 0 .. NBits - 1 : check(data, i)} \ {index}
    BY <1>1, <1>6, ClearBit DEF Clear, Indices
  <2>2. QED
    BY <1>6, <2>1 DEF Clear, Abstract!Operation, Abstract!Remove, Abstract!Positions,
       Abstract!Call, Call
<1>7. ASSUME NEW index \in 0 .. NBits - 1, Check(index) PROVE Abstract!Operation
  BY <1>7 DEF Check, Abstract!Operation, Abstract!Contains, Abstract!Positions,
     Abstract!Call, Call
<1>8. ASSUME NEW bits \in 0 .. MaxBound, FindFirstFree(bits) PROVE Abstract!Operation
  <2>1. Abstract!Zeroes(bits) = {i \in Indices : i < bits /\ ~check(data, i)}
    BY DEF Abstract!Zeroes, Abstract!Positions, Indices
  <2>2. \/ /\ Abstract!Zeroes(bits) = {}
           /\ find_first_free_w_bound(data, bits) = None
        \/ /\ find_first_free_w_bound(data, bits) \in Abstract!Zeroes(bits)
           /\ \A j \in Abstract!Zeroes(bits) : find_first_free_w_bound(data, bits) <= j
    BY <1>1, <2>1, SearchFinds
  <2>3. Abstract!Lowest(bits)
    BY <1>8, <2>2 DEF FindFirstFree, Abstract!Lowest, Abstract!Call, Call
  <2>4. QED
    BY <2>3 DEF Abstract!Operation
<1>9. ASSUME NEW bits \in 0 .. NBits, CountZerosToBound(bits) PROVE Abstract!Operation
  <2>1. Abstract!Zeroes(bits) = {i \in 0 .. bits - 1 : ~check(data, i)}
    BY <1>1 DEF Abstract!Zeroes, Abstract!Positions
  <2>2. Abstract!CountClear(bits)
    BY <1>2, <1>9, <2>1 DEF CountZerosToBound, count_zeros_to_bound, Abstract!CountClear,
       Abstract!Call, Call
  <2>3. QED
    BY <2>2 DEF Abstract!Operation
<1>10. ASSUME NEW bits \in 0 .. MaxBound, FindFirstFreeAborts(bits)
       PROVE  Abstract!Operation
  <2>1. Abstract!Zeroes(bits) = {i \in Indices : i < bits /\ ~check(data, i)}
    BY DEF Abstract!Zeroes, Abstract!Positions, Indices
  <2>2. Abstract!Zeroes(bits) = {}
    BY <1>1, <1>10, <2>1, SearchedBits DEF FindFirstFreeAborts, Asserts
  <2>3. bits > NBits
    <3>1. EndRemaining(bits) > NBits
      BY <1>10 DEF FindFirstFreeAborts, Asserts
    <3>2. bits \in Nat /\ (bits <= NBits \/ bits > NBits)
      BY <1>1, BitmapGeometry DEF MaxBound, WordBits
    <3>3. QED
      BY <1>1, <3>1, <3>2, SearchedEnds
  <2>4. Abstract!Abort(bits)
    BY <1>10, <2>2, <2>3 DEF FindFirstFreeAborts, Abstract!Abort, Abstract!Call, Call
  <2>5. QED
    BY <2>4 DEF Abstract!Operation
<1>11. QED
  BY <1>3, <1>4, <1>5, <1>6, <1>7, <1>8, <1>9, <1>10 DEF Operation

LEMMA StepRefines == TypeOK /\ [Next]_vars => [Abstract!Next]_(Abstract!vars)
<1> SUFFICES ASSUME TypeOK, [Next]_vars PROVE [Abstract!Next]_(Abstract!vars)
  OBVIOUS
<1>1. CASE Next
  BY <1>1, OperationRefines DEF Next, Abstract!Next
<1>2. CASE UNCHANGED vars
  BY <1>2 DEF vars, Abstract!vars
<1>3. QED
  BY <1>1, <1>2

LEMMA InitRefines == Init => Abstract!Init
  BY DEF Init, Abstract!Init, Abstract!Positions, Abstract!Call, Call

(* set and clear touch no neighbouring bit, the counts are those of the     *)
(* set, and the search by words, with its tail, returns the lowest clear    *)
(* bit below any bound, whatever the widths of bytes and words, and aborts  *)
(* only for a bound behind a payload without a clear bit.                   *)
THEOREM Refinement == Spec => ImplementsBitSet
BY TypeCorrect, InitRefines, StepRefines, PTL
   DEF Spec, ImplementsBitSet, Abstract!Spec
=============================================================================
