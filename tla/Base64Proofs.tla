---------------------------- MODULE Base64Proofs ----------------------------
(***************************************************************************)
(* Encode is RFC 4648, and Decode undoes it, for texts of any length.      *)
(*                                                                         *)
(* The code at each place is a function of the bytes around it (CodeIs):   *)
(* Encode builds it by groups, Reference by bits, and Decode has, after k  *)
(* codes, the 6k \div 8 bytes they make up and the bits left over.         *)
(*                                                                         *)
(* The first three lemmas are about recursion on places in general; they   *)
(* stand for the induction that the provers cannot instantiate.            *)
(***************************************************************************)
EXTENDS Base64, SequenceTheorems, FiniteSetTheorems, TLAPS

(* A set of natural numbers has a smallest one.                            *)
LEMMA SmallestOf ==
  ASSUME NEW S \in SUBSET Nat, S # {}
  PROVE  \E n \in S : \A m \in S : n <= m
<1> DEFINE R == {r \in Nat \X Nat : r[1] < r[2]}
<1>1. IsWellFoundedOn(R, Nat)
  BY NatLessThanWellFounded, Zenon DEF OpToRel
<1>2. \E n \in S : \A m \in S : <<m, n>> \notin R
  <2> HIDE DEF R
  <2> QED
    BY <1>1, WFMin, Zenon
<1>3. PICK n \in S : \A m \in S : <<m, n>> \notin R
  BY <1>2
<1>4. ASSUME NEW m \in S PROVE n <= m
  <2>1. <<m, n>> \in Nat \X Nat /\ <<m, n>> \notin R
    BY <1>3
  <2>2. ~(m < n)
    BY <2>1
  <2> QED
    BY <2>2
<1> QED
  BY <1>4

(* A function on 0..n that gives its value at k from that at k - 1 exists. *)
ByRec(g, n, base, F) ==
  g = [k \in 0..n |-> IF k = 0 THEN base ELSE F[<<k, g[k - 1]>>]]

LEMMA RecExists ==
  ASSUME NEW n \in Nat, NEW V, NEW base \in V, NEW F \in [(1..n) \X V -> V]
  PROVE  \E g \in [0..n -> V] : ByRec(g, n, base, F)
<1> DEFINE Good(g, m) ==
      \A k \in 0..m : g[k] = IF k = 0 THEN base ELSE F[<<k, g[k - 1]>>]
<1> DEFINE Bad == {m \in 0..n : ~\E g \in [0..m -> V] : Good(g, m)}
<1>1. Bad = {}
  <2> SUFFICES ASSUME Bad # {} PROVE FALSE
    OBVIOUS
  <2>1. PICK m \in Bad : \A j \in Bad : m <= j
    <3>1. Bad \in SUBSET Nat
      OBVIOUS
    <3> HIDE DEF Bad
    <3> QED
      BY <3>1, SmallestOf
  <2>2. CASE m = 0
    <3>1. [k \in 0..0 |-> base] \in [0..0 -> V] /\ Good([k \in 0..0 |-> base], 0)
      OBVIOUS
    <3> QED
      BY <2>1, <2>2, <3>1
  <2>3. CASE m # 0
    <3>1. m - 1 \in 0..n /\ m - 1 \notin Bad /\ m \in 1..n
      <4>1. m \in 0..n /\ m - 1 \in 0..n /\ ~(m <= m - 1) /\ m \in 1..n
        BY <2>1, <2>3
      <4> QED
        BY <2>1, <4>1
    <3>2. PICK g \in [0..(m - 1) -> V] : Good(g, m - 1)
      BY <3>1
    <3> DEFINE h == [k \in 0..m |-> IF k = m THEN F[<<m, g[m - 1]>>] ELSE g[k]]
    <3>3. h \in [0..m -> V]
      BY <3>1, <3>2
    <3>4. ASSUME NEW k \in 0..m
          PROVE  h[k] = IF k = 0 THEN base ELSE F[<<k, h[k - 1]>>]
      <4>1. ASSUME k # 0 PROVE h[k - 1] = g[k - 1]
        <5>1. k - 1 \in 0..m /\ k - 1 # m
          BY <3>1, <4>1
        <5> QED
          BY <5>1
      <4>2. CASE k = m
        <5>1. h[k] = F[<<m, g[m - 1]>>]
          BY <4>2
        <5> QED
          BY <4>1, <4>2, <5>1, <2>3
      <4>3. CASE k # m
        <5>1. h[k] = g[k] /\ k \in 0..(m - 1)
          BY <3>1, <4>3
        <5>2. g[k] = IF k = 0 THEN base ELSE F[<<k, g[k - 1]>>]
          BY <3>2, <5>1
        <5> HIDE DEF h
        <5> QED
          BY <4>1, <5>1, <5>2
      <4> QED
        BY <4>2, <4>3
    <3>5. Good(h, m)
      BY <3>4
    <3> QED
      BY <2>1, <3>3, <3>5
  <2> QED
    BY <2>2, <2>3
<1>2. PICK g \in [0..n -> V] : Good(g, n)
  BY <1>1
<1>3. g = [k \in 0..n |-> IF k = 0 THEN base ELSE F[<<k, g[k - 1]>>]]
  BY <1>2
<1> QED
  BY <1>3 DEF ByRec

(* Two functions that agree at k when they do at k - 1 agree on m..n.      *)
AgreeByRec(f, g, m, n) ==
  \A k \in m..n : (k # m => f[k - 1] = g[k - 1]) => f[k] = g[k]

LEMMA SameByRec ==
  ASSUME NEW m \in Nat, NEW n \in Nat, NEW f, NEW g, AgreeByRec(f, g, m, n)
  PROVE  \A k \in m..n : f[k] = g[k]
<1> DEFINE Bad == {k \in m..n : f[k] # g[k]}
<1> SUFFICES ASSUME Bad # {} PROVE FALSE
  OBVIOUS
<1>1. PICK k \in Bad : \A j \in Bad : k <= j
  <2>1. Bad \in SUBSET Nat
    OBVIOUS
  <2> HIDE DEF Bad
  <2> QED
    BY <2>1, SmallestOf
<1>2. k # m => k - 1 \in m..n /\ ~(k <= k - 1)
  BY <1>1
<1> QED
  BY <1>1, <1>2 DEF AgreeByRec

-----------------------------------------------------------------------------
(* The bytes of a text, with zeros after its end, and the code at place k. *)
Byte8 == 0..255
At(s, i) == IF i <= Len(s) THEN s[i] ELSE 0
GroupAt(s, j) == Group(At(s, 3*j + 1), At(s, 3*j + 2), At(s, 3*j + 3))
Padded(s, k) == 6 * (k - 1) >= 8 * Len(s)
CodeAt(s, k) ==
  IF Padded(s, k) THEN Pad ELSE GroupAt(s, (k - 1) \div 4)[1 + ((k - 1) % 4)]
Codes(s) == 4 * ((Len(s) + 2) \div 3)

LEMMA AtByte ==
  ASSUME NEW s \in Seq(Byte8), NEW i \in Nat \ {0} PROVE At(s, i) \in Byte8
<1>1. CASE i <= Len(s)
  BY <1>1 DEF At
<1>2. CASE ~(i <= Len(s))
  BY <1>2 DEF At, Byte8
<1> QED
  BY <1>1, <1>2

LEMMA Places ==
  ASSUME NEW k \in Nat \ {0}
  PROVE  /\ (k - 1) \div 4 \in Nat /\ (k - 1) % 4 \in 0..3
         /\ k = 4 * ((k - 1) \div 4) + ((k - 1) % 4) + 1
OBVIOUS

(* The bits of a byte.                                                     *)
LEMMA BitAt ==
  ASSUME NEW s \in Seq(Byte8), NEW i \in Nat, NEW b \in 0..7
  PROVE  BitOf(s, 8 * i + b + 1) = (At(s, i + 1) \div Weight[b + 1]) % 2
<1>1. (8 * i + b + 1) - 1 = 8 * i + b
  OBVIOUS
<1>2. (8 * i + b) \div 8 = i /\ (8 * i + b) % 8 = b
  OBVIOUS
<1>3. 8 * i + b + 1 > 8 * Len(s) <=> i + 1 > Len(s)
  OBVIOUS
<1>4. CASE i + 1 > Len(s)
  <2>1. (0 \div Weight[b + 1]) % 2 = 0
    BY DEF Weight
  <2> QED
    BY <1>3, <1>4, <2>1 DEF BitOf, At
<1>5. CASE ~(i + 1 > Len(s))
  <2>1. BitOf(s, 8 * i + b + 1) = (s[i + 1] \div Weight[1 + b]) % 2
    BY <1>1, <1>2, <1>3, <1>5 DEF BitOf
  <2> QED
    BY <1>5, <2>1 DEF At
<1> QED
  BY <1>4, <1>5

(* A bit is the difference of two quotients, so sums of bits telescope.    *)
LEMMA Halves ==
  ASSUME NEW a \in Byte8
  PROVE  /\ a \div 128 \in 0..1 /\ (a \div 128) % 2 = a \div 128
         /\ (a \div 64) % 2 = (a \div 64) - 2 * (a \div 128)
         /\ (a \div 32) % 2 = (a \div 32) - 2 * (a \div 64)
         /\ (a \div 16) % 2 = (a \div 16) - 2 * (a \div 32)
         /\ (a \div 8) % 2 = (a \div 8) - 2 * (a \div 16)
         /\ (a \div 4) % 2 = (a \div 4) - 2 * (a \div 8)
         /\ (a \div 2) % 2 = (a \div 2) - 2 * (a \div 4)
         /\ (a \div 1) % 2 = a - 2 * (a \div 2)
<1>1. a \div 128 \in 0..1 /\ (a \div 128) % 2 = a \div 128
  BY DEF Byte8
<1>2. (a \div 64) % 2 = (a \div 64) - 2 * (a \div 128)
  BY DEF Byte8
<1>3. (a \div 32) % 2 = (a \div 32) - 2 * (a \div 64)
  BY DEF Byte8
<1>4. (a \div 16) % 2 = (a \div 16) - 2 * (a \div 32)
  BY DEF Byte8
<1>5. (a \div 8) % 2 = (a \div 8) - 2 * (a \div 16)
  BY DEF Byte8
<1>6. (a \div 4) % 2 = (a \div 4) - 2 * (a \div 8)
  BY DEF Byte8
<1>7. (a \div 2) % 2 = (a \div 2) - 2 * (a \div 4)
  BY DEF Byte8
<1>8. (a \div 1) % 2 = a - 2 * (a \div 2)
  BY DEF Byte8
<1> QED
  BY <1>1, <1>2, <1>3, <1>4, <1>5, <1>6, <1>7, <1>8

Bit(a, p) == (a \div p) % 2

LEMMA Bits ==
  ASSUME NEW a \in Byte8, NEW b \in Byte8
  PROVE  /\ 32 * Bit(a, 128) + 16 * Bit(a, 64) + 8 * Bit(a, 32) + 4 * Bit(a, 16)
              + 2 * Bit(a, 8) + Bit(a, 4) = a \div 4
         /\ 32 * Bit(a, 2) + 16 * Bit(a, 1) + 8 * Bit(b, 128) + 4 * Bit(b, 64)
              + 2 * Bit(b, 32) + Bit(b, 16) = (a % 4) * 16 + b \div 16
         /\ 32 * Bit(a, 8) + 16 * Bit(a, 4) + 8 * Bit(a, 2) + 4 * Bit(a, 1)
              + 2 * Bit(b, 128) + Bit(b, 64) = (a % 16) * 4 + b \div 64
         /\ 32 * Bit(a, 32) + 16 * Bit(a, 16) + 8 * Bit(a, 8) + 4 * Bit(a, 4)
              + 2 * Bit(a, 2) + Bit(a, 1) = a % 64
<1>1. /\ a % 4 = a - 4 * (a \div 4) /\ a % 16 = a - 16 * (a \div 16)
      /\ a % 64 = a - 64 * (a \div 64)
  BY DEF Byte8
<1>2. \A p \in {1, 2, 4, 8, 16, 32, 64, 128} : a \div p \in Int /\ b \div p \in Int
  BY DEF Byte8
<1>7. /\ \A p \in {1, 2, 4, 8, 16, 32, 64, 128} : Bit(a, p) \in Int /\ Bit(b, p) \in Int
      /\ a % 4 \in Int /\ a % 16 \in Int /\ b \div 16 \in Int /\ b \div 64 \in Int
  BY <1>2 DEF Bit, Byte8
<1>3. 32 * Bit(a, 128) + 16 * Bit(a, 64) + 8 * Bit(a, 32) + 4 * Bit(a, 16)
        + 2 * Bit(a, 8) + Bit(a, 4) = a \div 4
  BY <1>2, Halves DEF Bit
<1>4. 32 * Bit(a, 2) + 16 * Bit(a, 1) + 8 * Bit(b, 128) + 4 * Bit(b, 64)
        + 2 * Bit(b, 32) + Bit(b, 16) = (a % 4) * 16 + b \div 16
  <2>1. 2 * Bit(a, 2) + Bit(a, 1) = a % 4
    BY <1>1, <1>2, Halves DEF Bit, Byte8
  <2>2. 8 * Bit(b, 128) + 4 * Bit(b, 64) + 2 * Bit(b, 32) + Bit(b, 16) = b \div 16
    BY <1>2, Halves DEF Bit, Byte8
  <2> QED
    BY <1>7, <2>1, <2>2
<1>5. 32 * Bit(a, 8) + 16 * Bit(a, 4) + 8 * Bit(a, 2) + 4 * Bit(a, 1)
        + 2 * Bit(b, 128) + Bit(b, 64) = (a % 16) * 4 + b \div 64
  <2>1. 8 * Bit(a, 8) + 4 * Bit(a, 4) + 2 * Bit(a, 2) + Bit(a, 1) = a % 16
    BY <1>1, <1>2, Halves DEF Bit, Byte8
  <2>2. 2 * Bit(b, 128) + Bit(b, 64) = b \div 64
    BY <1>2, Halves DEF Bit, Byte8
  <2> QED
    BY <1>7, <2>1, <2>2
<1>6. 32 * Bit(a, 32) + 16 * Bit(a, 16) + 8 * Bit(a, 8) + 4 * Bit(a, 4)
        + 2 * Bit(a, 2) + Bit(a, 1) = a % 64
  BY <1>1, <1>2, Halves DEF Bit, Byte8
<1> QED
  BY <1>3, <1>4, <1>5, <1>6

(* Six bits at a time are the codes of three bytes.                        *)
LEMMA ReferenceAt ==
  ASSUME NEW s \in Seq(Byte8), NEW k \in Nat \ {0}
  PROVE  CodeOf(s, k) = GroupAt(s, (k - 1) \div 4)[1 + ((k - 1) % 4)]
<1> DEFINE j == (k - 1) \div 4
           r == (k - 1) % 4
<1>1. j \in Nat /\ r \in 0..3 /\ k - 1 = 4 * j + r
  BY Places
<1>w. \A i \in Nat : \A b \in 0..7 :
        BitOf(s, 8 * i + b + 1) = Bit(At(s, i + 1), Weight[b + 1])
  BY BitAt DEF Bit
<1>q. ASSUME NEW q \in 0..23
      PROVE  BitOf(s, 24 * j + q + 1) = Bit(At(s, 3 * j + (q \div 8) + 1), Weight[(q % 8) + 1])
  <2>1. /\ 3 * j + (q \div 8) \in Nat /\ q % 8 \in 0..7
        /\ 24 * j + q + 1 = 8 * (3 * j + (q \div 8)) + (q % 8) + 1
    BY <1>1
  <2> QED
    BY <2>1, <1>w
<1>b. At(s, 3*j + 1) \in Byte8 /\ At(s, 3*j + 2) \in Byte8 /\ At(s, 3*j + 3) \in Byte8
  <2>1. 3*j + 1 \in Nat \ {0} /\ 3*j + 2 \in Nat \ {0} /\ 3*j + 3 \in Nat \ {0}
    BY <1>1
  <2> HIDE DEF j
  <2> QED
    BY <2>1, AtByte
<1> SUFFICES CodeOf(s, k) = GroupAt(s, j)[1 + r]
  OBVIOUS
<1> HIDE DEF j, r
<1>2. CASE r = 0
  <2>1. BitOf(s, 6 * (k - 1) + 1) = Bit(At(s, 3 * j + 1), 128)
    BY <1>1, <1>2, <1>q, 0 \in 0..23 DEF Weight
  <2>2. BitOf(s, 6 * (k - 1) + 2) = Bit(At(s, 3 * j + 1), 64)
    BY <1>1, <1>2, <1>q, 1 \in 0..23 DEF Weight
  <2>3. BitOf(s, 6 * (k - 1) + 3) = Bit(At(s, 3 * j + 1), 32)
    BY <1>1, <1>2, <1>q, 2 \in 0..23 DEF Weight
  <2>4. BitOf(s, 6 * (k - 1) + 4) = Bit(At(s, 3 * j + 1), 16)
    BY <1>1, <1>2, <1>q, 3 \in 0..23 DEF Weight
  <2>5. BitOf(s, 6 * (k - 1) + 5) = Bit(At(s, 3 * j + 1), 8)
    BY <1>1, <1>2, <1>q, 4 \in 0..23 DEF Weight
  <2>6. BitOf(s, 6 * (k - 1) + 6) = Bit(At(s, 3 * j + 1), 4)
    BY <1>1, <1>2, <1>q, 5 \in 0..23 DEF Weight
  <2>7. CodeOf(s, k) = Group(At(s, 3*j + 1), At(s, 3*j + 2), At(s, 3*j + 3))[1 + 0]
    BY <2>1, <2>2, <2>3, <2>4, <2>5, <2>6, <1>b, Bits DEF CodeOf, Group
  <2> QED
    BY <2>7, <1>2 DEF GroupAt
<1>3. CASE r = 1
  <2>1. BitOf(s, 6 * (k - 1) + 1) = Bit(At(s, 3 * j + 1), 2)
    BY <1>1, <1>3, <1>q, 6 \in 0..23 DEF Weight
  <2>2. BitOf(s, 6 * (k - 1) + 2) = Bit(At(s, 3 * j + 1), 1)
    BY <1>1, <1>3, <1>q, 7 \in 0..23 DEF Weight
  <2>3. BitOf(s, 6 * (k - 1) + 3) = Bit(At(s, 3 * j + 2), 128)
    BY <1>1, <1>3, <1>q, 8 \in 0..23 DEF Weight
  <2>4. BitOf(s, 6 * (k - 1) + 4) = Bit(At(s, 3 * j + 2), 64)
    BY <1>1, <1>3, <1>q, 9 \in 0..23 DEF Weight
  <2>5. BitOf(s, 6 * (k - 1) + 5) = Bit(At(s, 3 * j + 2), 32)
    BY <1>1, <1>3, <1>q, 10 \in 0..23 DEF Weight
  <2>6. BitOf(s, 6 * (k - 1) + 6) = Bit(At(s, 3 * j + 2), 16)
    BY <1>1, <1>3, <1>q, 11 \in 0..23 DEF Weight
  <2>7. CodeOf(s, k) = Group(At(s, 3*j + 1), At(s, 3*j + 2), At(s, 3*j + 3))[1 + 1]
    BY <2>1, <2>2, <2>3, <2>4, <2>5, <2>6, <1>b, Bits DEF CodeOf, Group
  <2> QED
    BY <2>7, <1>3 DEF GroupAt
<1>4. CASE r = 2
  <2>1. BitOf(s, 6 * (k - 1) + 1) = Bit(At(s, 3 * j + 2), 8)
    BY <1>1, <1>4, <1>q, 12 \in 0..23 DEF Weight
  <2>2. BitOf(s, 6 * (k - 1) + 2) = Bit(At(s, 3 * j + 2), 4)
    BY <1>1, <1>4, <1>q, 13 \in 0..23 DEF Weight
  <2>3. BitOf(s, 6 * (k - 1) + 3) = Bit(At(s, 3 * j + 2), 2)
    BY <1>1, <1>4, <1>q, 14 \in 0..23 DEF Weight
  <2>4. BitOf(s, 6 * (k - 1) + 4) = Bit(At(s, 3 * j + 2), 1)
    BY <1>1, <1>4, <1>q, 15 \in 0..23 DEF Weight
  <2>5. BitOf(s, 6 * (k - 1) + 5) = Bit(At(s, 3 * j + 3), 128)
    BY <1>1, <1>4, <1>q, 16 \in 0..23 DEF Weight
  <2>6. BitOf(s, 6 * (k - 1) + 6) = Bit(At(s, 3 * j + 3), 64)
    BY <1>1, <1>4, <1>q, 17 \in 0..23 DEF Weight
  <2>7. CodeOf(s, k) = Group(At(s, 3*j + 1), At(s, 3*j + 2), At(s, 3*j + 3))[1 + 2]
    BY <2>1, <2>2, <2>3, <2>4, <2>5, <2>6, <1>b, Bits DEF CodeOf, Group
  <2> QED
    BY <2>7, <1>4 DEF GroupAt
<1>5. CASE r = 3
  <2>1. BitOf(s, 6 * (k - 1) + 1) = Bit(At(s, 3 * j + 3), 32)
    BY <1>1, <1>5, <1>q, 18 \in 0..23 DEF Weight
  <2>2. BitOf(s, 6 * (k - 1) + 2) = Bit(At(s, 3 * j + 3), 16)
    BY <1>1, <1>5, <1>q, 19 \in 0..23 DEF Weight
  <2>3. BitOf(s, 6 * (k - 1) + 3) = Bit(At(s, 3 * j + 3), 8)
    BY <1>1, <1>5, <1>q, 20 \in 0..23 DEF Weight
  <2>4. BitOf(s, 6 * (k - 1) + 4) = Bit(At(s, 3 * j + 3), 4)
    BY <1>1, <1>5, <1>q, 21 \in 0..23 DEF Weight
  <2>5. BitOf(s, 6 * (k - 1) + 5) = Bit(At(s, 3 * j + 3), 2)
    BY <1>1, <1>5, <1>q, 22 \in 0..23 DEF Weight
  <2>6. BitOf(s, 6 * (k - 1) + 6) = Bit(At(s, 3 * j + 3), 1)
    BY <1>1, <1>5, <1>q, 23 \in 0..23 DEF Weight
  <2>7. CodeOf(s, k) = Group(At(s, 3*j + 1), At(s, 3*j + 2), At(s, 3*j + 3))[1 + 3]
    BY <2>1, <2>2, <2>3, <2>4, <2>5, <2>6, <1>b, Bits DEF CodeOf, Group
  <2> QED
    BY <2>7, <1>5 DEF GroupAt
<1> QED
  BY <1>1, <1>2, <1>3, <1>4, <1>5 DEF j, r

LEMMA ReferenceIs ==
  ASSUME NEW s \in Seq(Byte8)
  PROVE  Reference(s) = [k \in 1..Codes(s) |-> CodeAt(s, k)]
<1>1. Codes(s) \in Nat
  BY DEF Codes
<1>2. ASSUME NEW k \in 1..Codes(s)
      PROVE  (IF 6 * (k - 1) < 8 * Len(s) THEN CodeOf(s, k) ELSE Pad) = CodeAt(s, k)
  <2>1. k \in Nat \ {0} /\ (6 * (k - 1) < 8 * Len(s) <=> ~Padded(s, k))
    BY <1>1 DEF Padded
  <2> QED
    BY <2>1, ReferenceAt DEF CodeAt
<1> QED
  BY <1>2 DEF Reference, Codes

-----------------------------------------------------------------------------
(* Groups of four, one after the other.                                    *)
LEMMA Flatten4 ==
  ASSUME NEW w \in Nat, NEW gs \in [1..w -> Seq(Int)], \A i \in 1..w : Len(gs[i]) = 4
  PROVE  FlattenSeq(gs) = [k \in 1..4 * w |-> gs[(k - 1) \div 4 + 1][1 + ((k - 1) % 4)]]
<1> DEFINE G == [i \in 1..w |->
                  [k \in 1..4 * i |-> gs[(k - 1) \div 4 + 1][1 + ((k - 1) % 4)]]]
           Step(f) == [i \in 1..w |-> IF i = 1 THEN gs[i] ELSE f[i - 1] \o gs[i]]
           fl == CHOOSE f : f = Step(f)
<1>1. Len(gs) = w
  OBVIOUS
<1>2. ASSUME NEW k \in Nat \ {0}, NEW i \in Nat, k <= 4 * i
      PROVE  (k - 1) \div 4 + 1 \in 1..i /\ 1 + ((k - 1) % 4) \in 1..4
  <2> DEFINE q == (k - 1) \div 4
             r == (k - 1) % 4
  <2>1. q \in Nat /\ r \in 0..3 /\ k = 4 * q + r + 1
    BY Places
  <2> HIDE DEF q, r
  <2>2. q + 1 \in 1..i /\ 1 + r \in 1..4
    BY <1>2, <2>1
  <2> QED
    BY <2>2 DEF q, r
<1>3. ASSUME NEW i \in 1..w
      PROVE  /\ G[i] \in Seq(Int) /\ Len(G[i]) = 4 * i
             /\ \A k \in 1..4 * i : G[i][k] = gs[(k - 1) \div 4 + 1][1 + ((k - 1) % 4)]
  <2>1. ASSUME NEW k \in 1..4 * i
        PROVE  gs[(k - 1) \div 4 + 1][1 + ((k - 1) % 4)] \in Int
    <3>1. (k - 1) \div 4 + 1 \in 1..w /\ 1 + ((k - 1) % 4) \in 1..4
      BY <1>2
    <3> QED
      BY <3>1
  <2>2. G[i] \in [1..4 * i -> Int]
    BY <2>1
  <2> QED
    BY <2>2
<1>4. ASSUME NEW i \in 1..w, i # 1 PROVE G[i] = G[i - 1] \o gs[i]
  <2>1. i - 1 \in 1..w
    BY <1>4
  <2>2. /\ G[i - 1] \in Seq(Int) /\ Len(G[i - 1]) = 4 * (i - 1)
        /\ \A k \in 1..4 * (i - 1) :
             G[i - 1][k] = gs[(k - 1) \div 4 + 1][1 + ((k - 1) % 4)]
    BY <2>1, <1>3
  <2>3. gs[i] \in Seq(Int) /\ Len(gs[i]) = 4
    OBVIOUS
  <2> DEFINE a == G[i - 1]
             c == a \o gs[i]
  <2> HIDE DEF G
  <2>4. /\ c \in Seq(Int) /\ Len(c) = 4 * i
        /\ \A k \in 1..4 * i :
             c[k] = IF k <= 4 * (i - 1) THEN a[k] ELSE gs[i][k - 4 * (i - 1)]
    <3>1. 4 * (i - 1) + 4 = 4 * i
      OBVIOUS
    <3>2. a \in Seq(Int) /\ Len(a) = 4 * (i - 1)
      BY <2>2
    <3> HIDE DEF a
    <3>3. /\ c \in Seq(Int) /\ Len(c) = Len(a) + Len(gs[i])
          /\ \A k \in 1..Len(a) + Len(gs[i]) :
               c[k] = IF k <= Len(a) THEN a[k] ELSE gs[i][k - Len(a)]
      BY <2>3, <3>2, ConcatProperties
    <3> HIDE DEF c
    <3> QED
      BY <2>3, <3>1, <3>2, <3>3
  <2>5. ASSUME NEW k \in 1..4 * i PROVE c[k] = G[i][k]
    <3> HIDE DEF c
    <3>1. CASE k <= 4 * (i - 1)
      <4>1. k \in 1..4 * (i - 1)
        BY <3>1
      <4>2. c[k] = a[k]
        <5> HIDE DEF a
        <5> QED
          BY <2>4, <3>1
      <4> QED
        BY <1>3, <2>2, <4>1, <4>2
    <3>2. CASE ~(k <= 4 * (i - 1))
      <4>1. (k - 1) \div 4 + 1 = i /\ 1 + ((k - 1) % 4) = k - 4 * (i - 1)
        BY <3>2
      <4>2. c[k] = gs[i][k - 4 * (i - 1)]
        BY <2>4, <3>2
      <4> QED
        BY <1>3, <4>1, <4>2
    <3> QED
      BY <3>1, <3>2
  <2>6. c = G[i]
    <3> HIDE DEF c
    <3>1. /\ c \in Seq(Int) /\ G[i] \in Seq(Int) /\ Len(c) = Len(G[i])
          /\ \A k \in 1..Len(c) : c[k] = G[i][k]
      BY <1>3, <2>4, <2>5
    <3> QED
      BY <3>1, SeqEqual
  <2> QED
    BY <2>6
<1>5. CASE w = 0
  BY <1>1, <1>5 DEF FlattenSeq
<1>6. CASE w # 0
  <2>1. gs[1] = G[1]
    <3>1. 1 \in 1..w
      BY <1>6
    <3>2. ASSUME NEW k \in 1..4 PROVE gs[1][k] = G[1][k]
      <4>1. (k - 1) \div 4 + 1 = 1 /\ 1 + ((k - 1) % 4) = k
        OBVIOUS
      <4> QED
        BY <1>3, <3>1, <4>1
    <3> HIDE DEF G
    <3>4. Len(gs[1]) = 4 /\ Len(G[1]) = 4 * 1 /\ gs[1] \in Seq(Int)
      BY <1>3, <3>1
    <3>3. /\ gs[1] \in Seq(Int) /\ G[1] \in Seq(Int) /\ Len(gs[1]) = Len(G[1])
          /\ \A k \in 1..Len(gs[1]) : gs[1][k] = G[1][k]
      BY <1>3, <3>1, <3>2, <3>4
    <3> QED
      BY <3>3, SeqEqual
  <2>2. G = Step(G)
    <3>1. \A i \in 1..w : G[i] = IF i = 1 THEN gs[i] ELSE G[i - 1] \o gs[i]
      BY <1>4, <2>1
    <3>2. G = [i \in 1..w |-> G[i]]
      OBVIOUS
    <3> HIDE DEF G
    <3> QED
      BY <3>1, <3>2
  <2>3. fl = Step(fl)
    <3> HIDE DEF G
    <3> QED
      BY <2>2
  <2>4. \A f : f = Step(f) =>
          \A k \in 1..w : f[k] = IF k = 1 THEN gs[k] ELSE f[k - 1] \o gs[k]
    OBVIOUS
  <2>5. fl[w] = G[w]
    <3> HIDE DEF fl, G, Step
    <3>1. AgreeByRec(fl, G, 1, w)
      BY <2>2, <2>3, <2>4 DEF AgreeByRec
    <3>2. \A k \in 1..w : fl[k] = G[k]
      BY <3>1, SameByRec
    <3> QED
      BY <1>6, <3>2
  <2>6. FlattenSeq(gs) = fl[w]
    BY <1>1, <1>6 DEF FlattenSeq
  <2>7. w \in 1..w
    BY <1>6
  <2> HIDE DEF fl
  <2> QED
    BY <2>5, <2>6, <2>7
<1> QED
  BY <1>5, <1>6

LEMMA GroupType ==
  ASSUME NEW a \in Byte8, NEW b \in Byte8, NEW c \in Byte8
  PROVE  /\ Group(a, b, c) \in Seq(Int) /\ Len(Group(a, b, c)) = 4
         /\ \A r \in 1..4 : Group(a, b, c)[r] \in 0..63
<1>1. /\ a \div 4 \in 0..63 /\ (a % 4) * 16 + b \div 16 \in 0..63
      /\ (b % 16) * 4 + c \div 64 \in 0..63 /\ c % 64 \in 0..63
  BY DEF Byte8
<1> QED
  BY <1>1 DEF Group

LEMMA CodeType ==
  ASSUME NEW s \in Seq(Byte8), NEW k \in Nat \ {0}
  PROVE  CodeAt(s, k) \in -1..63
<1>1. /\ 3 * ((k - 1) \div 4) + 1 \in Nat \ {0} /\ 3 * ((k - 1) \div 4) + 2 \in Nat \ {0}
      /\ 3 * ((k - 1) \div 4) + 3 \in Nat \ {0} /\ 1 + ((k - 1) % 4) \in 1..4
  BY Places
<1>2. GroupAt(s, (k - 1) \div 4)[1 + ((k - 1) % 4)] \in 0..63
  BY <1>1, AtByte, GroupType DEF GroupAt
<1> QED
  BY <1>2 DEF CodeAt, Pad

(* The bytes after the last three: the codes of them and of zeros.         *)
LEMMA TailIs ==
  ASSUME NEW s \in Seq(Byte8), NEW w \in Nat, NEW t \in 0..2, Len(s) = 3 * w + t
  PROVE  LET y == EncodeTail(SubSeq(s, 3 * w + 1, Len(s)))
         IN /\ y \in Seq(Int) /\ 4 * w + Len(y) = Codes(s)
            /\ \A r \in 1..Len(y) : y[r] = CodeAt(s, 4 * w + r)
<1> DEFINE z == SubSeq(s, 3 * w + 1, Len(s))
           y == EncodeTail(z)
<1> SUFFICES /\ y \in Seq(Int) /\ 4 * w + Len(y) = Codes(s)
             /\ \A r \in 1..Len(y) : y[r] = CodeAt(s, 4 * w + r)
  OBVIOUS
<1>1. z \in Seq(Byte8) /\ Len(z) = t /\ \A i \in 1..t : z[i] = s[3 * w + i]
  <2>1. \A i \in 3 * w + 1..Len(s) : s[i] \in Byte8
    OBVIOUS
  <2>2. 3 * w + 1 \in Int /\ Len(s) \in Int /\ Len(s) - (3 * w + 1) + 1 = t
    OBVIOUS
  <2>3. /\ z \in Seq(Byte8) /\ Len(z) = IF 3 * w + 1 <= Len(s) THEN t ELSE 0
        /\ \A i \in 1..t : z[i] = s[3 * w + 1 + i - 1]
    <3> DEFINE m == 3 * w + 1
    <3> HIDE DEF m
    <3>1. /\ SubSeq(s, m, Len(s)) \in Seq(Byte8)
          /\ Len(SubSeq(s, m, Len(s))) = IF m <= Len(s) THEN Len(s) - m + 1 ELSE 0
          /\ \A i \in 1..Len(s) - m + 1 : SubSeq(s, m, Len(s))[i] = s[m + i - 1]
      BY <2>1, <2>2, SubSeqProperties DEF m
    <3> QED
      BY <2>2, <3>1 DEF m
  <2> HIDE DEF z
  <2> QED
    BY <2>3
<1>2. \A i \in 1..t : s[3 * w + i] \in Byte8 /\ At(s, 3 * w + i) = s[3 * w + i]
  BY DEF At
<1>3. \A i \in t + 1..3 : At(s, 3 * w + i) = 0
  BY DEF At
<1>4. ASSUME NEW r \in 1..4
      PROVE  /\ 4 * w + r \in Nat \ {0}
             /\ (4 * w + r - 1) \div 4 = w /\ 1 + ((4 * w + r - 1) % 4) = r
             /\ Padded(s, 4 * w + r) <=> 6 * (r - 1) >= 8 * t
  BY DEF Padded
<1>5. \A r \in 1..4 : CodeAt(s, 4 * w + r) =
        IF 6 * (r - 1) >= 8 * t THEN Pad
        ELSE Group(At(s, 3 * w + 1), At(s, 3 * w + 2), At(s, 3 * w + 3))[r]
  <2> TAKE r \in 1..4
  <2> DEFINE k == 4 * w + r
  <2>1. (k - 1) \div 4 = w /\ 1 + ((k - 1) % 4) = r /\ (Padded(s, k) <=> 6 * (r - 1) >= 8 * t)
    BY <1>4
  <2> HIDE DEF k
  <2>2. CodeAt(s, k) = IF 6 * (r - 1) >= 8 * t THEN Pad ELSE GroupAt(s, w)[r]
    BY <2>1 DEF CodeAt
  <2> QED
    BY <2>2 DEF k, GroupAt
<1> HIDE DEF z, y
<1>6. CASE t = 0
  <2>1. y = <<>> /\ Codes(s) = 4 * w
    BY <1>1, <1>6 DEF EncodeTail, Codes, y
  <2> QED
    BY <2>1
<1>9. ASSUME NEW a \in Int, NEW b \in Int, NEW c \in Int, NEW d \in Int,
             y = <<a, b, c, d>>, Codes(s) = 4 * w + 4,
             \A r \in 1..4 : y[r] = CodeAt(s, 4 * w + r)
      PROVE  /\ y \in Seq(Int) /\ 4 * w + Len(y) = Codes(s)
             /\ \A r \in 1..Len(y) : y[r] = CodeAt(s, 4 * w + r)
  <2>1. Len(y) = 4 /\ y \in Seq(Int)
    BY <1>9
  <2> QED
    BY <1>9, <2>1
<1>7. CASE t = 1
  <2> DEFINE a == s[3 * w + 1]
  <2>1. y = <<a \div 4, (a % 4) * 16, Pad, Pad>> /\ Codes(s) = 4 * w + 4
    <3>1. Codes(s) = 4 * w + 4
      BY <1>7 DEF Codes
    <3>2. Len(z) = 1 /\ z[1] = a
      BY <1>1, <1>7
    <3> QED
      BY <3>1, <3>2 DEF EncodeTail, y
  <2>2. a \in Byte8 /\ At(s, 3*w + 1) = a /\ At(s, 3*w + 2) = 0 /\ At(s, 3*w + 3) = 0
    BY <1>2, <1>3, <1>7
  <2> HIDE DEF a
  <2>3. a \div 4 \in Int /\ (a % 4) * 16 \in Int /\ (a % 4) * 16 + 0 \div 16 = (a % 4) * 16
    BY <2>2 DEF Byte8
  <2>4. Group(a, 0, 0)[1] = a \div 4 /\ Group(a, 0, 0)[2] = (a % 4) * 16
    BY <2>3 DEF Group
  <2>5. \A r \in 1..4 : CodeAt(s, 4 * w + r) = IF r >= 3 THEN Pad ELSE Group(a, 0, 0)[r]
    BY <1>5, <1>7, <2>2
  <2>6. y[1] = a \div 4 /\ y[2] = (a % 4) * 16 /\ y[3] = Pad /\ y[4] = Pad
    BY <2>1
  <2>7. \A r \in 1..4 : y[r] = CodeAt(s, 4 * w + r)
    <3> DEFINE c(r) == CodeAt(s, 4 * w + r)
    <3>1. c(1) = y[1] /\ c(2) = y[2] /\ c(3) = y[3] /\ c(4) = y[4]
      BY <2>4, <2>5, <2>6
    <3>2. \A r \in 1..4 : r = 1 \/ r = 2 \/ r = 3 \/ r = 4
      OBVIOUS
    <3> HIDE DEF c
    <3>3. \A r \in 1..4 : y[r] = c(r)
      BY <3>1, <3>2
    <3> QED
      BY <3>3 DEF c
  <2>8. Pad \in Int
    BY DEF Pad
  <2> QED
    BY <1>9, <2>1, <2>3, <2>7, <2>8
<1>8. CASE t = 2
  <2> DEFINE a == s[3 * w + 1]
             b == s[3 * w + 2]
  <2>1. /\ y = <<a \div 4, (a % 4) * 16 + b \div 16, (b % 16) * 4, Pad>>
        /\ Codes(s) = 4 * w + 4
    <3>1. Codes(s) = 4 * w + 4
      BY <1>8 DEF Codes
    <3>2. Len(z) = 2 /\ z[1] = a /\ z[2] = b
      BY <1>1, <1>8
    <3> QED
      BY <3>1, <3>2 DEF EncodeTail, y
  <2>2. /\ a \in Byte8 /\ b \in Byte8
        /\ At(s, 3*w + 1) = a /\ At(s, 3*w + 2) = b /\ At(s, 3*w + 3) = 0
    BY <1>2, <1>3, <1>8
  <2> HIDE DEF a, b
  <2>3. /\ a \div 4 \in Int /\ (a % 4) * 16 + b \div 16 \in Int /\ (b % 16) * 4 \in Int
        /\ (b % 16) * 4 + 0 \div 64 = (b % 16) * 4
    BY <2>2 DEF Byte8
  <2>4. /\ Group(a, b, 0)[1] = a \div 4 /\ Group(a, b, 0)[2] = (a % 4) * 16 + b \div 16
        /\ Group(a, b, 0)[3] = (b % 16) * 4
    BY <2>3 DEF Group
  <2>5. \A r \in 1..4 : CodeAt(s, 4 * w + r) = IF r = 4 THEN Pad ELSE Group(a, b, 0)[r]
    BY <1>5, <1>8, <2>2
  <2>6. \A r \in 1..4 : y[r] = CodeAt(s, 4 * w + r)
    BY <2>1, <2>4, <2>5
  <2>7. Pad \in Int
    BY DEF Pad
  <2> QED
    BY <1>9, <2>1, <2>3, <2>6, <2>7
<1> QED
  BY <1>6, <1>7, <1>8

LEMMA EncodeIs ==
  ASSUME NEW s \in Seq(Byte8)
  PROVE  Encode(s) = [k \in 1..Codes(s) |-> CodeAt(s, k)]
<1> DEFINE w == Len(s) \div 3
           gs == [k \in 1..w |-> Group(s[3*k - 2], s[3*k - 1], s[3*k])]
           x == FlattenSeq(gs)
           y == EncodeTail(SubSeq(s, 3 * w + 1, Len(s)))
<1>1. w \in Nat /\ Len(s) % 3 \in 0..2 /\ Len(s) = 3 * w + (Len(s) % 3)
  OBVIOUS
<1> HIDE DEF w
<1>2. ASSUME NEW k \in 1..w
      PROVE  gs[k] = GroupAt(s, k - 1) /\ gs[k] \in Seq(Int) /\ Len(gs[k]) = 4
  <2>1. /\ 3 * (k - 1) + 1 = 3*k - 2 /\ 3 * (k - 1) + 2 = 3*k - 1 /\ 3 * (k - 1) + 3 = 3*k
        /\ 3*k - 2 \in 1..Len(s) /\ 3*k - 1 \in 1..Len(s) /\ 3*k \in 1..Len(s)
    BY <1>1
  <2>2. gs[k] = GroupAt(s, k - 1)
    BY <2>1 DEF GroupAt, At
  <2>3. s[3*k - 2] \in Byte8 /\ s[3*k - 1] \in Byte8 /\ s[3*k] \in Byte8
    BY <2>1
  <2> QED
    BY <2>2, <2>3, GroupType
<1>3. gs \in [1..w -> Seq(Int)] /\ \A i \in 1..w : Len(gs[i]) = 4
  BY <1>2
<1>4. x = [k \in 1..4 * w |-> gs[(k - 1) \div 4 + 1][1 + ((k - 1) % 4)]]
  <2> HIDE DEF gs
  <2> QED
    BY <1>1, <1>3, Flatten4
<1>5. ASSUME NEW k \in 1..4 * w PROVE x[k] = CodeAt(s, k) /\ x[k] \in Int
  <2>1. /\ k \in Nat \ {0} /\ (k - 1) \div 4 + 1 \in 1..w
        /\ ((k - 1) \div 4 + 1) - 1 = (k - 1) \div 4 /\ ~Padded(s, k)
    <3> DEFINE q == (k - 1) \div 4
    <3>1. q \in Nat /\ (k - 1) % 4 \in 0..3 /\ k = 4 * q + ((k - 1) % 4) + 1
      BY <1>1, Places
    <3>2. 6 * (k - 1) < 8 * Len(s)
      BY <1>1
    <3> HIDE DEF q
    <3>3. q + 1 \in 1..w /\ (q + 1) - 1 = q
      BY <1>1, <3>1
    <3> QED
      BY <1>1, <3>2, <3>3 DEF Padded, q
  <2> HIDE DEF gs
  <2>2. gs[(k - 1) \div 4 + 1] = GroupAt(s, (k - 1) \div 4)
    BY <1>2, <2>1
  <2>3. x[k] = CodeAt(s, k)
    BY <1>4, <2>1, <2>2 DEF CodeAt
  <2>4. CodeAt(s, k) \in -1..63
    BY <2>1, CodeType
  <2> HIDE DEF x
  <2>5. -1..63 \subseteq Int
    OBVIOUS
  <2> QED
    BY <2>3, <2>4, <2>5
<1>6. x \in Seq(Int) /\ Len(x) = 4 * w
  <2>1. x = [k \in 1..4 * w |-> x[k]]
    <3> HIDE DEF gs
    <3> QED
      BY <1>4
  <2>2. x \in [1..4 * w -> Int]
    <3> HIDE DEF x
    <3> QED
      BY <1>5, <2>1
  <2> HIDE DEF x
  <2> QED
    BY <1>1, <2>2
<1>7. /\ y \in Seq(Int) /\ 4 * w + Len(y) = Codes(s)
      /\ \A r \in 1..Len(y) : y[r] = CodeAt(s, 4 * w + r)
  BY <1>1, TailIs
<1>8. Encode(s) = x \o y
  BY DEF Encode, w
<1> HIDE DEF x, y
<1>9. /\ x \o y \in Seq(Int) /\ Len(x \o y) = Codes(s)
      /\ \A k \in 1..Codes(s) : (x \o y)[k] = IF k <= 4 * w THEN x[k] ELSE y[k - 4 * w]
  <2>1. /\ x \o y \in Seq(Int) /\ Len(x \o y) = Len(x) + Len(y)
        /\ \A k \in 1..Len(x) + Len(y) :
             (x \o y)[k] = IF k <= Len(x) THEN x[k] ELSE y[k - Len(x)]
    BY <1>6, <1>7, ConcatProperties
  <2> QED
    BY <1>6, <1>7, <2>1
<1>10. \A k \in 1..Codes(s) : (x \o y)[k] = CodeAt(s, k)
  <2> TAKE k \in 1..Codes(s)
  <2>1. Len(y) \in Nat
    BY <1>7
  <2>2. CASE k <= 4 * w
    BY <1>1, <1>5, <1>9, <2>2
  <2>3. CASE ~(k <= 4 * w)
    <3>1. k - 4 * w \in 1..Len(y) /\ 4 * w + (k - 4 * w) = k
      BY <1>1, <1>7, <2>1, <2>3
    <3> QED
      BY <1>7, <1>9, <2>3, <3>1
  <2> QED
    BY <2>2, <2>3
<1>11. x \o y = [k \in 1..Codes(s) |-> (x \o y)[k]]
  <2> DEFINE c == x \o y
  <2>1. c \in Seq(Int) /\ Len(c) = Codes(s)
    BY <1>9
  <2> HIDE DEF c
  <2>2. c = [k \in 1..Len(c) |-> c[k]]
    BY <2>1
  <2> QED
    BY <2>1, <2>2 DEF c
<1> QED
  BY <1>8, <1>10, <1>11

(* Encode is RFC 4648: its groups of three bytes and its two kinds of end  *)
(* are what the bits of the text say, for texts of any length.             *)
THEOREM EncodeIsReference ==
  ASSUME NEW s \in Seq(Byte8) PROVE Encode(s) = Reference(s)
BY EncodeIs, ReferenceIs

-----------------------------------------------------------------------------
(* Decode.  Its states, and the equations of its recursive function.       *)
Decoding == [i : Nat, bin : Int, out : Seq(Int)]
Start0 == [i |-> 0, bin |-> 0, out |-> <<>>]

LEMMA DecodeOneType ==
  ASSUME NEW d \in Decoding, NEW c \in Int PROVE DecodeOne(d, c) \in Decoding
<1>1. CASE c = Pad
  BY <1>1 DEF DecodeOne
<1>2. CASE c # Pad
  <2>1. /\ d.i \in Nat /\ d.bin \in Int /\ d.out \in Seq(Int)
        /\ d.i % 4 \in 0..3 /\ d.i + 1 \in Nat
    BY DEF Decoding
  <2>2. /\ c * 4 \in Int /\ (c % 16) * 16 \in Int /\ (c % 4) * 64 \in Int
        /\ d.bin + c \div 16 \in Int /\ d.bin + c \div 4 \in Int /\ d.bin + c \in Int
    BY <2>1
  <2>3. \A x \in Int : Append(d.out, x) \in Seq(Int)
    BY <2>1
  <2> QED
    BY <1>2, <2>1, <2>2, <2>3 DEF DecodeOne, Decoding
<1> QED
  BY <1>1, <1>2

LEMMA DecodeSteps ==
  ASSUME NEW codes \in Seq(Int)
  PROVE  \E g \in [0..Len(codes) -> Decoding] :
           /\ g[0] = Start0
           /\ \A k \in 1..Len(codes) : g[k] = DecodeOne(g[k - 1], codes[k])
           /\ Decode(codes) = g[Len(codes)].out
<1> DEFINE n == Len(codes)
           F == [x \in (1..n) \X Decoding |-> DecodeOne(x[2], codes[x[1]])]
           Step(f) == [k \in 0..n |->
                         IF k = 0 THEN Start0 ELSE DecodeOne(f[k - 1], codes[k])]
           after == CHOOSE f : f = Step(f)
<1>1. n \in Nat /\ \A k \in 1..n : codes[k] \in Int
  OBVIOUS
<1>2. Start0 \in Decoding
  BY DEF Start0, Decoding
<1> HIDE DEF n
<1>3. F \in [(1..n) \X Decoding -> Decoding]
  BY <1>1, DecodeOneType
<1>4. PICK g \in [0..n -> Decoding] : ByRec(g, n, Start0, F)
  <2> HIDE DEF F
  <2> QED
    BY <1>1, <1>2, <1>3, RecExists
<1>5. g = Step(g)
  <2>1. \A k \in 0..n : k # 0 => F[<<k, g[k - 1]>>] = DecodeOne(g[k - 1], codes[k])
    <3> TAKE k \in 0..n
    <3> HAVE k # 0
    <3>1. <<k, g[k - 1]>> \in (1..n) \X Decoding
      BY <1>1
    <3> QED
      BY <3>1
  <2> HIDE DEF F
  <2> QED
    BY <1>4, <2>1 DEF ByRec
<1>6. after = Step(after)
  BY <1>5
<1>7. AgreeByRec(after, g, 0, n)
  <2>1. \A f : f = Step(f) => \A k \in 0..n :
          f[k] = IF k = 0 THEN Start0 ELSE DecodeOne(f[k - 1], codes[k])
    OBVIOUS
  <2> HIDE DEF Step, after
  <2> QED
    BY <1>5, <1>6, <2>1 DEF AgreeByRec
<1>8. after[n] = g[n] /\ g[0] = Start0
  <2> HIDE DEF after
  <2>1. after[n] = g[n]
    BY <1>1, <1>7, SameByRec
  <2> QED
    BY <1>1, <1>5, <2>1
<1>9. Decode(codes) = after[n].out
  BY DEF Decode, Start0, n
<1>10. \A k \in 1..n : g[k] = DecodeOne(g[k - 1], codes[k])
  BY <1>1, <1>5
<1> HIDE DEF after
<1> QED
  BY <1>8, <1>9, <1>10 DEF n

LEMMA Rebuild ==
  ASSUME NEW a \in Byte8, NEW b \in Byte8
  PROVE  /\ (a \div 4) * 4 + ((a % 4) * 16 + b \div 16) \div 16 = a
         /\ ((a % 4) * 16 + b \div 16) % 16 = b \div 16
         /\ (a \div 16) * 16 + ((a % 16) * 4 + b \div 64) \div 4 = a
         /\ ((a % 16) * 4 + b \div 64) % 4 = b \div 64
         /\ (a \div 64) * 64 + (a % 64) = a
<1>1. /\ a = 4 * (a \div 4) + (a % 4) /\ a \div 4 \in Int /\ a % 4 \in 0..3
      /\ a = 16 * (a \div 16) + (a % 16) /\ a \div 16 \in Int /\ a % 16 \in 0..15
      /\ a = 64 * (a \div 64) + (a % 64) /\ a \div 64 \in Int /\ a % 64 \in 0..63
  <2>1. a = 4 * (a \div 4) + (a % 4) /\ a \div 4 \in Int /\ a % 4 \in 0..3
    BY DEF Byte8
  <2>2. a = 16 * (a \div 16) + (a % 16) /\ a \div 16 \in Int /\ a % 16 \in 0..15
    BY DEF Byte8
  <2>3. a = 64 * (a \div 64) + (a % 64) /\ a \div 64 \in Int /\ a % 64 \in 0..63
    BY DEF Byte8
  <2> QED
    BY <2>1, <2>2, <2>3
<1>2. b \div 16 \in 0..15 /\ b \div 64 \in 0..3
  BY DEF Byte8
<1>3. ASSUME NEW x \in Int, NEW y \in 0..15
      PROVE  (x * 16 + y) \div 16 = x /\ (x * 16 + y) % 16 = y
  OBVIOUS
<1>4. ASSUME NEW x \in Int, NEW y \in 0..3
      PROVE  (x * 4 + y) \div 4 = x /\ (x * 4 + y) % 4 = y
  OBVIOUS
<1> DEFINE x4 == a % 4
           x16 == a % 16
           x64 == a % 64
           h4 == a \div 4
           h16 == a \div 16
           h64 == a \div 64
           y16 == b \div 16
           y64 == b \div 64
<1> SUFFICES /\ h4 * 4 + (x4 * 16 + y16) \div 16 = a /\ (x4 * 16 + y16) % 16 = y16
             /\ h16 * 16 + (x16 * 4 + y64) \div 4 = a /\ (x16 * 4 + y64) % 4 = y64
             /\ h64 * 64 + x64 = a
  OBVIOUS
<1>5. /\ a = 4 * h4 + x4 /\ h4 \in Int /\ x4 \in Int
      /\ a = 16 * h16 + x16 /\ h16 \in Int /\ x16 \in Int
      /\ a = 64 * h64 + x64 /\ h64 \in Int /\ x64 \in Int
      /\ y16 \in 0..15 /\ y64 \in 0..3
  <2>1. a = 4 * h4 + x4 /\ h4 \in Int /\ x4 \in Int
    BY <1>1
  <2>2. a = 16 * h16 + x16 /\ h16 \in Int /\ x16 \in Int
    BY <1>1
  <2>3. a = 64 * h64 + x64 /\ h64 \in Int /\ x64 \in Int
    BY <1>1
  <2> QED
    BY <1>2, <2>1, <2>2, <2>3
<1> HIDE DEF x4, x16, x64, h4, h16, h64, y16, y64
<1>6. (x4 * 16 + y16) \div 16 = x4 /\ (x4 * 16 + y16) % 16 = y16
  BY <1>3, <1>5
<1>7. (x16 * 4 + y64) \div 4 = x16 /\ (x16 * 4 + y64) % 4 = y64
  BY <1>4, <1>5
<1> QED
  BY <1>5, <1>6, <1>7

LEMMA Longer ==
  ASSUME NEW s \in Seq(Byte8), NEW i \in 1..Len(s)
  PROVE  SubSeq(s, 1, i) = Append(SubSeq(s, 1, i - 1), s[i])
<1>1. 1 \in 1..Len(s) /\ i \in 1..Len(s)
  OBVIOUS
<1>2. SubSeq(s, 1, i) = SubSeq(s, 1, i - 1) \o <<s[i]>>
  BY <1>1, SubSeqRecursiveSecond
<1>3. SubSeq(s, 1, i - 1) \in Seq(Byte8)
  OBVIOUS
<1> QED
  BY <1>2, <1>3

(* What Decode has after k codes that are not padding: the bits left over  *)
(* of the byte that k codes reach into.                                    *)
Left(s, k) ==
  LET j == k \div 4
  IN IF k % 4 = 1 THEN (At(s, 3*j + 1) \div 4) * 4
     ELSE IF k % 4 = 2 THEN (At(s, 3*j + 2) \div 16) * 16
     ELSE (At(s, 3*j + 3) \div 64) * 64

LEMMA LeftIs ==
  ASSUME NEW s, NEW k \in Nat, NEW j, k \div 4 = j
  PROVE  /\ k % 4 = 1 => Left(s, k) = (At(s, 3*j + 1) \div 4) * 4
         /\ k % 4 = 2 => Left(s, k) = (At(s, 3*j + 2) \div 16) * 16
         /\ k % 4 = 3 => Left(s, k) = (At(s, 3*j + 3) \div 64) * 64
BY DEF Left

Decoded8(s, k, d) ==
  IF k # 0 /\ Padded(s, k) THEN d.out = s
  ELSE /\ d.i = k
       /\ k % 4 # 0 => d.bin = Left(s, k)
       /\ d.out = SubSeq(s, 1, (6 * k) \div 8)

LEMMA DecodeStep ==
  ASSUME NEW s \in Seq(Byte8), NEW k \in 1..Codes(s), NEW d \in Decoding,
         Decoded8(s, k - 1, d)
  PROVE  Decoded8(s, k, DecodeOne(d, CodeAt(s, k)))
<1> DEFINE j == (k - 1) \div 4
           r == (k - 1) % 4
           e == DecodeOne(d, CodeAt(s, k))
<1>1. k \in Nat \ {0} /\ Len(s) \in Nat
  BY DEF Codes
<1>2. j \in Nat /\ r \in 0..3 /\ k = 4 * j + r + 1
  BY <1>1, Places
<1>3. CASE Padded(s, k)
  <2>1. e = d
    BY <1>3 DEF CodeAt, DecodeOne
  <2>2. CASE k - 1 # 0 /\ Padded(s, k - 1)
    BY <1>1, <1>3, <2>1, <2>2 DEF Decoded8
  <2>3. CASE ~(k - 1 # 0 /\ Padded(s, k - 1))
    <3>1. (6 * (k - 1)) \div 8 = Len(s)
      BY <1>1, <1>3, <2>3 DEF Padded
    <3>2. d.out = SubSeq(s, 1, Len(s))
      BY <1>1, <2>3, <3>1 DEF Decoded8
    <3>3. SubSeq(s, 1, Len(s)) = s
      BY SubSeqFull
    <3> QED
      BY <1>1, <1>3, <2>1, <3>2, <3>3 DEF Decoded8
  <2> QED
    BY <2>2, <2>3
<1>4. CASE ~Padded(s, k)
  <2>1. 6 * (k - 1) < 8 * Len(s) /\ ~(k - 1 # 0 /\ Padded(s, k - 1))
    BY <1>1, <1>4 DEF Padded
  <2>2. /\ d.i = k - 1 /\ ((k - 1) % 4 # 0 => d.bin = Left(s, k - 1))
        /\ d.out = SubSeq(s, 1, (6 * (k - 1)) \div 8)
    BY <2>1 DEF Decoded8
  <2> DEFINE b1 == At(s, 3 * j + 1)
             b2 == At(s, 3 * j + 2)
             b3 == At(s, 3 * j + 3)
             c  == CodeAt(s, k)
  <2>3. b1 \in Byte8 /\ b2 \in Byte8 /\ b3 \in Byte8
    <3>1. 3 * j + 1 \in Nat \ {0} /\ 3 * j + 2 \in Nat \ {0} /\ 3 * j + 3 \in Nat \ {0}
      BY <1>2
    <3> HIDE DEF j
    <3> QED
      BY <3>1, AtByte
  <2>4. c = Group(b1, b2, b3)[1 + r] /\ c \in 0..63 /\ c # Pad
    <3>1. c = Group(b1, b2, b3)[1 + r]
      BY <1>4 DEF CodeAt, GroupAt
    <3> HIDE DEF b1, b2, b3, j, r, c
    <3>2. \A q \in 1..4 : Group(b1, b2, b3)[q] \in 0..63
      BY <2>3, GroupType
    <3>3. 1 + r \in 1..4
      BY <1>2
    <3>4. c \in 0..63
      BY <3>1, <3>2, <3>3
    <3>5. c # Pad
      BY <3>4 DEF Pad
    <3> QED
      BY <3>1, <3>4, <3>5
  <2>5. SUFFICES /\ e.i = k
                 /\ k % 4 # 0 => e.bin = Left(s, k)
                 /\ e.out = SubSeq(s, 1, (6 * k) \div 8)
    BY <1>4 DEF Decoded8
  <2>6. d.i % 4 = r /\ d.i + 1 = k /\ (r # 0 => d.bin = Left(s, k - 1))
    BY <1>1, <2>2
  <2> HIDE DEF j, r, c, b1, b2, b3
  <2>7. CASE r = 0
    <3>1. /\ k % 4 = 1 /\ k \div 4 = j /\ (k - 1) % 4 = 0 /\ (k - 1) \div 4 = j
          /\ (6 * (k - 1)) \div 8 = 3 * j /\ (6 * k) \div 8 = 3 * j
      BY <1>2, <2>7
    <3>2. c = b1 \div 4
      BY <2>4, <2>7 DEF Group
    <3>3. e.i = k /\ e.bin = c * 4 /\ e.out = d.out
      BY <2>4, <2>6, <2>7 DEF DecodeOne, c
    <3>4. Left(s, k) = (b1 \div 4) * 4
      <4>1. Left(s, k) = (At(s, 3*j + 1) \div 4) * 4
        BY <1>1, <3>1, LeftIs
      <4> QED
        BY <4>1 DEF b1
    <3> QED
      BY <2>2, <3>1, <3>2, <3>3, <3>4
  <2>8. CASE r = 1
    <3>1. /\ k % 4 = 2 /\ k \div 4 = j /\ (k - 1) % 4 = 1 /\ (k - 1) \div 4 = j
          /\ (6 * (k - 1)) \div 8 = 3 * j /\ (6 * k) \div 8 = 3 * j + 1
      BY <1>2, <2>8
    <3>2. c = (b1 % 4) * 16 + b2 \div 16
      BY <2>4, <2>8 DEF Group
    <3>3. d.bin = (b1 \div 4) * 4
      <4>1. Left(s, k - 1) = (At(s, 3*j + 1) \div 4) * 4
        <5> DEFINE p == k - 1
        <5>1. p \in Nat /\ p % 4 = 1 /\ p \div 4 = j
          BY <1>1, <3>1
        <5> HIDE DEF p
        <5>2. Left(s, p) = (At(s, 3*j + 1) \div 4) * 4
          BY <5>1, LeftIs
        <5> QED
          BY <5>2 DEF p
      <4> QED
        BY <2>6, <2>8, <4>1 DEF b1
    <3>4. e.i = k /\ e.bin = (c % 16) * 16 /\ e.out = Append(d.out, d.bin + c \div 16)
      BY <2>4, <2>6, <2>8 DEF DecodeOne, c
    <3>5. d.bin + c \div 16 = b1 /\ (c % 16) * 16 = (b2 \div 16) * 16
      BY <2>3, <3>2, <3>3, Rebuild
    <3>6. 3 * j + 1 \in 1..Len(s) /\ (3 * j + 1) - 1 = 3 * j
      BY <1>2, <2>1, <2>8
    <3>7. b1 = s[3 * j + 1]
      BY <3>6 DEF At, b1
    <3>8. e.out = SubSeq(s, 1, 3 * j + 1)
      BY <2>2, <3>1, <3>4, <3>5, <3>6, <3>7, Longer
    <3>9. Left(s, k) = (b2 \div 16) * 16
      <4>1. Left(s, k) = (At(s, 3*j + 2) \div 16) * 16
        BY <1>1, <3>1, LeftIs
      <4> QED
        BY <4>1 DEF b2
    <3> QED
      BY <3>1, <3>4, <3>5, <3>8, <3>9
  <2>9. CASE r = 2
    <3>1. /\ k % 4 = 3 /\ k \div 4 = j /\ (k - 1) % 4 = 2 /\ (k - 1) \div 4 = j
          /\ (6 * (k - 1)) \div 8 = 3 * j + 1 /\ (6 * k) \div 8 = 3 * j + 2
      BY <1>2, <2>9
    <3>2. c = (b2 % 16) * 4 + b3 \div 64
      BY <2>4, <2>9 DEF Group
    <3>3. d.bin = (b2 \div 16) * 16
      <4>1. Left(s, k - 1) = (At(s, 3*j + 2) \div 16) * 16
        <5> DEFINE p == k - 1
        <5>1. p \in Nat /\ p % 4 = 2 /\ p \div 4 = j
          BY <1>1, <3>1
        <5> HIDE DEF p
        <5>2. Left(s, p) = (At(s, 3*j + 2) \div 16) * 16
          BY <5>1, LeftIs
        <5> QED
          BY <5>2 DEF p
      <4> QED
        BY <2>6, <2>9, <4>1 DEF b2
    <3>4. e.i = k /\ e.bin = (c % 4) * 64 /\ e.out = Append(d.out, d.bin + c \div 4)
      BY <2>4, <2>6, <2>9 DEF DecodeOne, c
    <3>5. d.bin + c \div 4 = b2 /\ (c % 4) * 64 = (b3 \div 64) * 64
      BY <2>3, <3>2, <3>3, Rebuild
    <3>6. 3 * j + 2 \in 1..Len(s) /\ (3 * j + 2) - 1 = 3 * j + 1
      BY <1>2, <2>1, <2>9
    <3>7. b2 = s[3 * j + 2]
      BY <3>6 DEF At, b2
    <3>8. e.out = SubSeq(s, 1, 3 * j + 2)
      BY <2>2, <3>1, <3>4, <3>5, <3>6, <3>7, Longer
    <3>9. Left(s, k) = (b3 \div 64) * 64
      <4>1. Left(s, k) = (At(s, 3*j + 3) \div 64) * 64
        BY <1>1, <3>1, LeftIs
      <4> QED
        BY <4>1 DEF b3
    <3> QED
      BY <3>1, <3>4, <3>5, <3>8, <3>9
  <2>10. CASE r = 3
    <3>1. /\ k % 4 = 0 /\ (k - 1) % 4 = 3 /\ (k - 1) \div 4 = j
          /\ (6 * (k - 1)) \div 8 = 3 * j + 2 /\ (6 * k) \div 8 = 3 * j + 3
      BY <1>2, <2>10
    <3>2. c = b3 % 64
      BY <2>4, <2>10 DEF Group
    <3>3. d.bin = (b3 \div 64) * 64
      <4>1. Left(s, k - 1) = (At(s, 3*j + 3) \div 64) * 64
        <5> DEFINE p == k - 1
        <5>1. p \in Nat /\ p % 4 = 3 /\ p \div 4 = j
          BY <1>1, <3>1
        <5> HIDE DEF p
        <5>2. Left(s, p) = (At(s, 3*j + 3) \div 64) * 64
          BY <5>1, LeftIs
        <5> QED
          BY <5>2 DEF p
      <4> QED
        BY <2>6, <2>10, <4>1 DEF b3
    <3>4. e.i = k /\ e.bin = d.bin /\ e.out = Append(d.out, d.bin + c)
      BY <2>4, <2>6, <2>10 DEF DecodeOne, c
    <3>5. d.bin + c = b3
      <4>1. (b3 \div 64) * 64 + (b3 % 64) = b3
        BY <2>3, Rebuild
      <4> QED
        BY <3>2, <3>3, <4>1
    <3>6. 3 * j + 3 \in 1..Len(s) /\ (3 * j + 3) - 1 = 3 * j + 2
      BY <1>2, <2>1, <2>10
    <3>7. b3 = s[3 * j + 3]
      BY <3>6 DEF At, b3
    <3>8. e.out = SubSeq(s, 1, 3 * j + 3)
      BY <2>2, <3>1, <3>4, <3>5, <3>6, <3>7, Longer
    <3> QED
      BY <3>1, <3>4, <3>8
  <2> QED
    BY <1>2, <2>7, <2>8, <2>9, <2>10
<1> QED
  BY <1>3, <1>4

(* Whatever the bytes of a text and its length, what Encode makes of it is *)
(* decoded to the same text.                                               *)
THEOREM DecodeUndoesEncode ==
  ASSUME NEW s \in Seq(Byte8) PROVE Decode(Encode(s)) = s
<1> DEFINE c == Encode(s)
           n == Codes(s)
<1>1. n \in Nat /\ Len(s) \in Nat
  BY DEF Codes
<1>2. c = [k \in 1..n |-> CodeAt(s, k)]
  BY EncodeIs
<1>3. \A k \in 1..n : CodeAt(s, k) \in Int
  <2>1. -1..63 \subseteq Int /\ 1..n \subseteq Nat \ {0}
    BY <1>1
  <2> QED
    BY <2>1, CodeType
<1> HIDE DEF c, n
<1>4. c \in Seq(Int) /\ Len(c) = n /\ \A k \in 1..n : c[k] = CodeAt(s, k)
  BY <1>1, <1>2, <1>3
<1>5. PICK g \in [0..n -> Decoding] :
        /\ g[0] = Start0
        /\ \A k \in 1..n : g[k] = DecodeOne(g[k - 1], c[k])
        /\ Decode(c) = g[n].out
  BY <1>4, DecodeSteps
<1> DEFINE Bad == {k \in 0..n : ~Decoded8(s, k, g[k])}
<1>6. Bad = {}
  <2> SUFFICES ASSUME Bad # {} PROVE FALSE
    OBVIOUS
  <2>1. PICK k \in Bad : \A m \in Bad : k <= m
    <3>1. Bad \in SUBSET Nat
      BY <1>1
    <3> HIDE DEF Bad
    <3> QED
      BY <3>1, SmallestOf
  <2>2. CASE k = 0
    <3>1. SubSeq(s, 1, 0) = <<>> /\ (6 * 0) \div 8 = 0
      BY <1>1, SubSeqEmpty
    <3>2. Decoded8(s, 0, Start0)
      BY <3>1 DEF Decoded8, Start0
    <3> QED
      BY <1>5, <2>1, <2>2, <3>2
  <2>3. CASE k # 0
    <3>1. k \in 1..n /\ k - 1 \in 0..n /\ ~(k <= k - 1)
      BY <1>1, <2>1, <2>3
    <3>2. Decoded8(s, k - 1, g[k - 1])
      BY <2>1, <3>1
    <3>3. g[k] = DecodeOne(g[k - 1], CodeAt(s, k)) /\ g[k - 1] \in Decoding
      BY <1>4, <1>5, <3>1
    <3>4. Decoded8(s, k, g[k])
      BY <3>1, <3>2, <3>3, DecodeStep DEF n
    <3> QED
      BY <2>1, <3>4
  <2> QED
    BY <2>2, <2>3
<1>7. Decoded8(s, n, g[n])
  BY <1>1, <1>6
<1>8. CASE n # 0 /\ Padded(s, n)
  BY <1>5, <1>7, <1>8 DEF Decoded8, c
<1>9. CASE ~(n # 0 /\ Padded(s, n))
  <2>1. (6 * n) \div 8 = Len(s)
    BY <1>1, <1>9 DEF Padded, n, Codes
  <2>2. g[n].out = SubSeq(s, 1, Len(s))
    BY <1>7, <1>9, <2>1 DEF Decoded8
  <2> QED
    BY <1>5, <2>2, SubSeqFull DEF c
<1> QED
  BY <1>8, <1>9

=============================================================================
