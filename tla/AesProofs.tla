------------------------------ MODULE AesProofs -------------------------------
(***************************************************************************)
(* What the encryption keeps, for every key, message, fill and size of the *)
(* buffers.  The tables and the round functions of aes.c are first shown   *)
(* equal to those of the standard, Fips197, and undone by their inverses:  *)
(* bit by bit up to xtime and the products, value by value for the S-box   *)
(* and its inverse, then row, column and block.  KeyExpansion is the       *)
(* schedule of the standard.  On this rests AesInv, the inductive          *)
(* invariant of Aes, and with it one lemma for every action.  CodecProofs  *)
(* composes it with Base64 and states the theorems.                        *)
(***************************************************************************)
EXTENDS Aes, WellFoundedInduction, TLAPS

-----------------------------------------------------------------------------
(* Octets: addition and multiplication by x, bit by bit.                   *)

(* Bit k of a.                                                             *)
IsSet(a, k) == (a \div 2^k) % 2 = 1

(* The table of nibbles is the exclusive or, bit by bit.                   *)
LEMMA XorNibbleBits ==
  ASSUME NEW a \in 0..15, NEW b \in 0..15
  PROVE  /\ XorNibble[a][b] \in 0..15
         /\ \A k \in 0..3 : IsSet(XorNibble[a][b], k) <=> ~(IsSet(a, k) <=> IsSet(b, k))
<1>1. XorNibble[a][b] = XorBit(a, b, 0) + XorBit(a, b, 1) + XorBit(a, b, 2) + XorBit(a, b, 3)
  BY DEF XorNibble, Nibble
<1>2. /\ XorBit(a, b, 0) \in {0, 1} /\ XorBit(a, b, 1) \in {0, 2}
      /\ XorBit(a, b, 2) \in {0, 4} /\ XorBit(a, b, 3) \in {0, 8}
  BY DEF XorBit
<1>3. XorNibble[a][b] \in 0..15
  BY <1>1, <1>2
<1>4. /\ IsSet(XorNibble[a][b], 0) <=> ~(IsSet(a, 0) <=> IsSet(b, 0))
      /\ IsSet(XorNibble[a][b], 1) <=> ~(IsSet(a, 1) <=> IsSet(b, 1))
      /\ IsSet(XorNibble[a][b], 2) <=> ~(IsSet(a, 2) <=> IsSet(b, 2))
      /\ IsSet(XorNibble[a][b], 3) <=> ~(IsSet(a, 3) <=> IsSet(b, 3))
  BY <1>1, <1>2, SMTT(60) DEF XorBit, IsSet
<1> QED  BY <1>3, <1>4

(* And so is Xor of octets, C's ^.                                         *)
LEMMA XorBits ==
  ASSUME NEW a \in 0..255, NEW b \in 0..255
  PROVE  /\ Xor(a, b) \in 0..255
         /\ \A k \in 0..7 : IsSet(Xor(a, b), k) <=> ~(IsSet(a, k) <=> IsSet(b, k))
<1>1. PICK ah \in 0..15, al \in 0..15 : ah = a \div 16 /\ al = a % 16 /\ a = 16 * ah + al
  OBVIOUS
<1>2. PICK bh \in 0..15, bl \in 0..15 : bh = b \div 16 /\ bl = b % 16 /\ b = 16 * bh + bl
  OBVIOUS
<1> DEFINE h == XorNibble[ah][bh]
           l == XorNibble[al][bl]
<1>3. /\ h \in 0..15 /\ l \in 0..15
      /\ \A k \in 0..3 : /\ IsSet(h, k) <=> ~(IsSet(ah, k) <=> IsSet(bh, k))
                         /\ IsSet(l, k) <=> ~(IsSet(al, k) <=> IsSet(bl, k))
  BY XorNibbleBits
<1>4. Xor(a, b) = 16 * h + l
  BY <1>1, <1>2 DEF Xor
<1>5. ASSUME NEW x \in 0..15, NEW y \in 0..15
      PROVE  \A k \in 0..3 : /\ IsSet(16 * x + y, k) <=> IsSet(y, k)
                             /\ IsSet(16 * x + y, k + 4) <=> IsSet(x, k)
  <2>1. /\ IsSet(16 * x + y, 0) <=> IsSet(y, 0)
        /\ IsSet(16 * x + y, 1) <=> IsSet(y, 1)
        /\ IsSet(16 * x + y, 2) <=> IsSet(y, 2)
        /\ IsSet(16 * x + y, 3) <=> IsSet(y, 3)
    BY DEF IsSet
  <2>2. /\ IsSet(16 * x + y, 4) <=> IsSet(x, 0)
        /\ IsSet(16 * x + y, 5) <=> IsSet(x, 1)
        /\ IsSet(16 * x + y, 6) <=> IsSet(x, 2)
        /\ IsSet(16 * x + y, 7) <=> IsSet(x, 3)
    BY DEF IsSet
  <2> QED  BY <2>1, <2>2
<1> HIDE DEF h, l
<1>6. ASSUME NEW k \in 0..3
      PROVE  /\ IsSet(Xor(a, b), k) <=> ~(IsSet(a, k) <=> IsSet(b, k))
             /\ IsSet(Xor(a, b), k + 4) <=> ~(IsSet(a, k + 4) <=> IsSet(b, k + 4))
  <2>1. /\ IsSet(Xor(a, b), k) <=> IsSet(l, k)
        /\ IsSet(Xor(a, b), k + 4) <=> IsSet(h, k)
    BY <1>3, <1>4, <1>5
  <2>2. /\ IsSet(a, k) <=> IsSet(al, k)
        /\ IsSet(a, k + 4) <=> IsSet(ah, k)
        /\ IsSet(b, k) <=> IsSet(bl, k)
        /\ IsSet(b, k + 4) <=> IsSet(bh, k)
    BY <1>1, <1>2, <1>5, SMTT(60)
  <2> QED  BY <1>3, <2>1, <2>2
<1>7. \A k \in 0..7 : k \in 0..3 \/ (k - 4 \in 0..3 /\ k = (k - 4) + 4)
  OBVIOUS
<1>8. Xor(a, b) \in 0..255
  BY <1>3, <1>4
<1> QED  BY <1>6, <1>7, <1>8

(* An octet is known by its bits.                                          *)
LEMMA SameBits ==
  ASSUME NEW a \in 0..255, NEW b \in 0..255,
         \A k \in 0..7 : IsSet(a, k) <=> IsSet(b, k)
  PROVE  a = b
<1>1. /\ (a % 2 = 1) <=> (b % 2 = 1)
      /\ ((a \div 2) % 2 = 1) <=> ((b \div 2) % 2 = 1)
      /\ ((a \div 4) % 2 = 1) <=> ((b \div 4) % 2 = 1)
      /\ ((a \div 8) % 2 = 1) <=> ((b \div 8) % 2 = 1)
      /\ ((a \div 16) % 2 = 1) <=> ((b \div 16) % 2 = 1)
      /\ ((a \div 32) % 2 = 1) <=> ((b \div 32) % 2 = 1)
      /\ ((a \div 64) % 2 = 1) <=> ((b \div 64) % 2 = 1)
      /\ ((a \div 128) % 2 = 1) <=> ((b \div 128) % 2 = 1)
  <2>1. \A k \in {0, 1, 2, 3, 4, 5, 6, 7} : IsSet(a, k) <=> IsSet(b, k)
    OBVIOUS
  <2> QED  BY <2>1 DEF IsSet
<1>2. \A x \in 0..255 : x = (x % 2) + 2 * ((x \div 2) % 2) + 4 * ((x \div 4) % 2) + 8 * ((x \div 8) % 2)
                             + 16 * ((x \div 16) % 2) + 32 * ((x \div 32) % 2) + 64 * ((x \div 64) % 2)
                             + 128 * ((x \div 128) % 2)
  BY SMTT(60)
<1>3. /\ a % 2 = b % 2
      /\ (a \div 2) % 2 = (b \div 2) % 2
      /\ (a \div 4) % 2 = (b \div 4) % 2
      /\ (a \div 8) % 2 = (b \div 8) % 2
      /\ (a \div 16) % 2 = (b \div 16) % 2
      /\ (a \div 32) % 2 = (b \div 32) % 2
      /\ (a \div 64) % 2 = (b \div 64) % 2
      /\ (a \div 128) % 2 = (b \div 128) % 2
  BY <1>1
<1> QED  BY <1>2, <1>3

(* The bits of xtime: shifted, and reduced by 1B where bit 7 was set.      *)
LEMMA XTimeBits ==
  ASSUME NEW a \in 0..255
  PROVE  /\ xtime(a) \in 0..255
         /\ IsSet(xtime(a), 0) <=> IsSet(a, 7)
         /\ IsSet(xtime(a), 1) <=> ~(IsSet(a, 0) <=> IsSet(a, 7))
         /\ IsSet(xtime(a), 2) <=> IsSet(a, 1)
         /\ IsSet(xtime(a), 3) <=> ~(IsSet(a, 2) <=> IsSet(a, 7))
         /\ IsSet(xtime(a), 4) <=> ~(IsSet(a, 3) <=> IsSet(a, 7))
         /\ IsSet(xtime(a), 5) <=> IsSet(a, 4)
         /\ IsSet(xtime(a), 6) <=> IsSet(a, 5)
         /\ IsSet(xtime(a), 7) <=> IsSet(a, 6)
<1>1. PICK d \in 0..255 : d = (2 * a) % 256 /\ d = IF a < 128 THEN 2 * a ELSE 2 * a - 256
  BY SMTT(60)
<1>2. PICK e \in 0..255 : e = IF a >= 128 THEN 27 ELSE 0
  OBVIOUS
<1>3. xtime(a) = Xor(d, e)
  BY <1>1, <1>2 DEF xtime
<1>4. /\ Xor(d, e) \in 0..255
      /\ \A k \in 0..7 : IsSet(Xor(d, e), k) <=> ~(IsSet(d, k) <=> IsSet(e, k))
  BY XorBits
<1>5. \A k \in {0, 1, 2, 3, 4, 5, 6, 7} : IsSet(xtime(a), k) <=> ~(IsSet(d, k) <=> IsSet(e, k))
  BY <1>3, <1>4
<1>6. /\ ~IsSet(d, 0)
      /\ IsSet(d, 1) <=> IsSet(a, 0)
      /\ IsSet(d, 2) <=> IsSet(a, 1)
      /\ IsSet(d, 3) <=> IsSet(a, 2)
      /\ IsSet(d, 4) <=> IsSet(a, 3)
      /\ IsSet(d, 5) <=> IsSet(a, 4)
      /\ IsSet(d, 6) <=> IsSet(a, 5)
      /\ IsSet(d, 7) <=> IsSet(a, 6)
  <2>1. CASE a < 128
    BY <1>1, <2>1 DEF IsSet
  <2>2. CASE a >= 128
    BY <1>1, <2>2 DEF IsSet
  <2> QED  BY <2>1, <2>2
<1>7. /\ IsSet(e, 0) <=> IsSet(a, 7)
      /\ IsSet(e, 1) <=> IsSet(a, 7)
      /\ IsSet(e, 3) <=> IsSet(a, 7)
      /\ IsSet(e, 4) <=> IsSet(a, 7)
      /\ ~IsSet(e, 2) /\ ~IsSet(e, 5) /\ ~IsSet(e, 6) /\ ~IsSet(e, 7)
  BY <1>2 DEF IsSet
<1> QED  BY <1>3, <1>4, <1>5, <1>6, <1>7

Octet == 0..255

LEMMA XorOctet == ASSUME NEW a \in Octet, NEW b \in Octet PROVE Xor(a, b) \in Octet
BY XorBits DEF Octet

LEMMA XorBit1 ==
  ASSUME NEW a \in Octet, NEW b \in Octet, NEW k \in 0..7
  PROVE  IsSet(Xor(a, b), k) <=> ~(IsSet(a, k) <=> IsSet(b, k))
BY XorBits DEF Octet

(* The octets are a group under Xor, and every octet its own inverse.      *)
LEMMA XorLaws ==
  ASSUME NEW a \in Octet, NEW b \in Octet, NEW c \in Octet
  PROVE  /\ Xor(a, b) = Xor(b, a)
         /\ Xor(a, Xor(b, c)) = Xor(Xor(a, b), c)
         /\ Xor(a, a) = 0
         /\ Xor(a, 0) = a
         /\ Xor(0, a) = a
<1>1. 0 \in Octet /\ \A k \in 0..7 : ~IsSet(0, k)
  <2>1. /\ ~IsSet(0, 0) /\ ~IsSet(0, 1) /\ ~IsSet(0, 2) /\ ~IsSet(0, 3)
        /\ ~IsSet(0, 4) /\ ~IsSet(0, 5) /\ ~IsSet(0, 6) /\ ~IsSet(0, 7)
    BY DEF IsSet
  <2> QED  BY <2>1 DEF Octet
<1>2. Xor(a, b) = Xor(b, a)
  <2>1. Xor(a, b) \in Octet /\ Xor(b, a) \in Octet
    BY XorOctet
  <2>2. \A k \in 0..7 : IsSet(Xor(a, b), k) <=> IsSet(Xor(b, a), k)
    BY XorBit1
  <2> QED  BY <2>1, <2>2, SameBits DEF Octet
<1>3. Xor(a, Xor(b, c)) = Xor(Xor(a, b), c)
  <2>1. PICK p \in Octet, q \in Octet : p = Xor(a, b) /\ q = Xor(b, c)
    BY XorOctet
  <2>2. Xor(a, q) \in Octet /\ Xor(p, c) \in Octet
    BY XorOctet
  <2>3. \A k \in 0..7 : IsSet(Xor(a, q), k) <=> IsSet(Xor(p, c), k)
    BY <2>1, XorBit1
  <2> QED  BY <2>1, <2>2, <2>3, SameBits DEF Octet
<1>4. Xor(a, a) = 0
  <2>1. Xor(a, a) \in Octet
    BY XorOctet
  <2>2. \A k \in 0..7 : IsSet(Xor(a, a), k) <=> IsSet(0, k)
    BY <1>1, XorBit1
  <2> QED  BY <1>1, <2>1, <2>2, SameBits DEF Octet
<1>5. Xor(a, 0) = a
  <2>1. Xor(a, 0) \in Octet
    BY <1>1, XorOctet
  <2>2. \A k \in 0..7 : IsSet(Xor(a, 0), k) <=> IsSet(a, k)
    BY <1>1, XorBit1
  <2> QED  BY <2>1, <2>2, SameBits DEF Octet
<1>6. Xor(0, a) = a
  <2>1. Xor(0, a) \in Octet
    BY <1>1, XorOctet
  <2>2. \A k \in 0..7 : IsSet(Xor(0, a), k) <=> IsSet(a, k)
    BY <1>1, XorBit1
  <2> QED  BY <2>1, <2>2, SameBits DEF Octet
<1> QED  BY <1>2, <1>3, <1>4, <1>5, <1>6

LEMMA XorZero == ASSUME NEW a \in Octet PROVE Xor(a, 0) = a /\ Xor(0, a) = a
BY XorLaws

(* A value added twice is gone: how CBC and the round keys are undone.     *)
LEMMA XorTwice ==
  ASSUME NEW a \in Octet, NEW b \in Octet
  PROVE  Xor(Xor(a, b), b) = a
BY XorLaws

LEMMA XorSwap ==
  ASSUME NEW a \in Octet, NEW b \in Octet, NEW c \in Octet, NEW d \in Octet
  PROVE  Xor(Xor(a, b), Xor(c, d)) = Xor(Xor(a, c), Xor(b, d))
<1>1. Xor(a, b) \in Octet /\ Xor(c, d) \in Octet /\ Xor(a, c) \in Octet /\ Xor(b, d) \in Octet
  BY XorOctet
<1>2. Xor(Xor(a, b), Xor(c, d)) \in Octet /\ Xor(Xor(a, c), Xor(b, d)) \in Octet
  BY <1>1, XorOctet
<1>3. ASSUME NEW k \in 0..7
      PROVE  IsSet(Xor(Xor(a, b), Xor(c, d)), k) <=> IsSet(Xor(Xor(a, c), Xor(b, d)), k)
  <2>1. /\ IsSet(Xor(Xor(a, b), Xor(c, d)), k) <=> ~(IsSet(Xor(a, b), k) <=> IsSet(Xor(c, d), k))
        /\ IsSet(Xor(Xor(a, c), Xor(b, d)), k) <=> ~(IsSet(Xor(a, c), k) <=> IsSet(Xor(b, d), k))
    BY <1>1, XorBit1
  <2>2. /\ IsSet(Xor(a, b), k) <=> ~(IsSet(a, k) <=> IsSet(b, k))
        /\ IsSet(Xor(c, d), k) <=> ~(IsSet(c, k) <=> IsSet(d, k))
        /\ IsSet(Xor(a, c), k) <=> ~(IsSet(a, k) <=> IsSet(c, k))
        /\ IsSet(Xor(b, d), k) <=> ~(IsSet(b, k) <=> IsSet(d, k))
    BY XorBit1
  <2> QED  BY <2>1, <2>2
<1> QED  BY <1>2, <1>3, SameBits DEF Octet

(* xtime distributes over Xor.                                             *)
LEMMA XTimeLinear ==
  ASSUME NEW a \in Octet, NEW b \in Octet
  PROVE  /\ xtime(a) \in Octet
         /\ xtime(Xor(a, b)) = Xor(xtime(a), xtime(b))
<1>1. /\ a \in 0..255 /\ b \in 0..255 /\ xtime(a) \in Octet /\ xtime(b) \in Octet
  BY XTimeBits DEF Octet
<1>2. PICK p \in 0..255 : p = Xor(a, b)
  BY XorOctet DEF Octet
<1>3. xtime(p) \in Octet /\ Xor(xtime(a), xtime(b)) \in Octet
  BY <1>1, XTimeBits, XorOctet DEF Octet
<1>4. \A k \in 0..7 : /\ IsSet(p, k) <=> ~(IsSet(a, k) <=> IsSet(b, k))
                      /\ IsSet(Xor(xtime(a), xtime(b)), k) <=> ~(IsSet(xtime(a), k) <=> IsSet(xtime(b), k))
  BY <1>1, <1>2, XorBit1
<1>5. /\ IsSet(p, 0) <=> ~(IsSet(a, 0) <=> IsSet(b, 0))
      /\ IsSet(p, 1) <=> ~(IsSet(a, 1) <=> IsSet(b, 1))
      /\ IsSet(p, 2) <=> ~(IsSet(a, 2) <=> IsSet(b, 2))
      /\ IsSet(p, 3) <=> ~(IsSet(a, 3) <=> IsSet(b, 3))
      /\ IsSet(p, 4) <=> ~(IsSet(a, 4) <=> IsSet(b, 4))
      /\ IsSet(p, 5) <=> ~(IsSet(a, 5) <=> IsSet(b, 5))
      /\ IsSet(p, 6) <=> ~(IsSet(a, 6) <=> IsSet(b, 6))
      /\ IsSet(p, 7) <=> ~(IsSet(a, 7) <=> IsSet(b, 7))
  BY <1>4
<1>6. /\ IsSet(Xor(xtime(a), xtime(b)), 0) <=> ~(IsSet(xtime(a), 0) <=> IsSet(xtime(b), 0))
      /\ IsSet(Xor(xtime(a), xtime(b)), 1) <=> ~(IsSet(xtime(a), 1) <=> IsSet(xtime(b), 1))
      /\ IsSet(Xor(xtime(a), xtime(b)), 2) <=> ~(IsSet(xtime(a), 2) <=> IsSet(xtime(b), 2))
      /\ IsSet(Xor(xtime(a), xtime(b)), 3) <=> ~(IsSet(xtime(a), 3) <=> IsSet(xtime(b), 3))
      /\ IsSet(Xor(xtime(a), xtime(b)), 4) <=> ~(IsSet(xtime(a), 4) <=> IsSet(xtime(b), 4))
      /\ IsSet(Xor(xtime(a), xtime(b)), 5) <=> ~(IsSet(xtime(a), 5) <=> IsSet(xtime(b), 5))
      /\ IsSet(Xor(xtime(a), xtime(b)), 6) <=> ~(IsSet(xtime(a), 6) <=> IsSet(xtime(b), 6))
      /\ IsSet(Xor(xtime(a), xtime(b)), 7) <=> ~(IsSet(xtime(a), 7) <=> IsSet(xtime(b), 7))
  BY <1>4
<1>7. /\ IsSet(xtime(p), 0) <=> IsSet(p, 7)
      /\ IsSet(xtime(p), 1) <=> ~(IsSet(p, 0) <=> IsSet(p, 7))
      /\ IsSet(xtime(p), 2) <=> IsSet(p, 1)
      /\ IsSet(xtime(p), 3) <=> ~(IsSet(p, 2) <=> IsSet(p, 7))
      /\ IsSet(xtime(p), 4) <=> ~(IsSet(p, 3) <=> IsSet(p, 7))
      /\ IsSet(xtime(p), 5) <=> IsSet(p, 4)
      /\ IsSet(xtime(p), 6) <=> IsSet(p, 5)
      /\ IsSet(xtime(p), 7) <=> IsSet(p, 6)
  BY XTimeBits
<1>8. /\ IsSet(xtime(a), 0) <=> IsSet(a, 7)
      /\ IsSet(xtime(a), 1) <=> ~(IsSet(a, 0) <=> IsSet(a, 7))
      /\ IsSet(xtime(a), 2) <=> IsSet(a, 1)
      /\ IsSet(xtime(a), 3) <=> ~(IsSet(a, 2) <=> IsSet(a, 7))
      /\ IsSet(xtime(a), 4) <=> ~(IsSet(a, 3) <=> IsSet(a, 7))
      /\ IsSet(xtime(a), 5) <=> IsSet(a, 4)
      /\ IsSet(xtime(a), 6) <=> IsSet(a, 5)
      /\ IsSet(xtime(a), 7) <=> IsSet(a, 6)
  BY <1>1, XTimeBits
<1>9. /\ IsSet(xtime(b), 0) <=> IsSet(b, 7)
      /\ IsSet(xtime(b), 1) <=> ~(IsSet(b, 0) <=> IsSet(b, 7))
      /\ IsSet(xtime(b), 2) <=> IsSet(b, 1)
      /\ IsSet(xtime(b), 3) <=> ~(IsSet(b, 2) <=> IsSet(b, 7))
      /\ IsSet(xtime(b), 4) <=> ~(IsSet(b, 3) <=> IsSet(b, 7))
      /\ IsSet(xtime(b), 5) <=> IsSet(b, 4)
      /\ IsSet(xtime(b), 6) <=> IsSet(b, 5)
      /\ IsSet(xtime(b), 7) <=> IsSet(b, 6)
  BY <1>1, XTimeBits, ZenonT(60)
<1>10. /\ IsSet(xtime(p), 0) <=> IsSet(Xor(xtime(a), xtime(b)), 0)
       /\ IsSet(xtime(p), 1) <=> IsSet(Xor(xtime(a), xtime(b)), 1)
       /\ IsSet(xtime(p), 2) <=> IsSet(Xor(xtime(a), xtime(b)), 2)
       /\ IsSet(xtime(p), 3) <=> IsSet(Xor(xtime(a), xtime(b)), 3)
       /\ IsSet(xtime(p), 4) <=> IsSet(Xor(xtime(a), xtime(b)), 4)
       /\ IsSet(xtime(p), 5) <=> IsSet(Xor(xtime(a), xtime(b)), 5)
       /\ IsSet(xtime(p), 6) <=> IsSet(Xor(xtime(a), xtime(b)), 6)
       /\ IsSet(xtime(p), 7) <=> IsSet(Xor(xtime(a), xtime(b)), 7)
  BY <1>5, <1>6, <1>7, <1>8, <1>9
<1>11. \A k \in 0..7 : IsSet(xtime(p), k) <=> IsSet(Xor(xtime(a), xtime(b)), k)
  BY <1>10
<1> QED  BY <1>1, <1>2, <1>3, <1>11, SameBits DEF Octet

-----------------------------------------------------------------------------
(* MixColumn and its inverse, row by row.                                  *)

(* The Multiply macro at the four factors of InvMixColumns.                *)
LEMMA MultiplyValues ==
  ASSUME NEW x \in Octet, NEW x2 \in Octet, NEW x4 \in Octet, NEW x8 \in Octet,
         x2 = xtime(x), x4 = xtime(x2), x8 = xtime(x4)
  PROVE  /\ Multiply(x, 9) = Xor(x, x8)
         /\ Multiply(x, 11) = Xor(Xor(x, x2), x8)
         /\ Multiply(x, 13) = Xor(x, Xor(x4, x8))
         /\ Multiply(x, 14) = Xor(x2, Xor(x4, x8))
<1>1. /\ \A z \in Octet : Xor(z, 0) = z /\ Xor(0, z) = z
      /\ \A y, z \in Octet : Xor(y, z) \in Octet
  BY XorZero, XorOctet
<1>2. /\ 0 \in Octet
      /\ \A z \in Octet : 0 * z = 0 /\ 1 * z = z
  BY DEF Octet
<1>3. xtime(x8) \in Octet
  BY XTimeLinear
<1>4. Multiply(x, 9) = Xor(Xor(1 * x, 0 * x2), Xor(Xor(0 * x4, 1 * x8), 0 * xtime(x8)))
  BY DEF Multiply
<1>5. Multiply(x, 11) = Xor(Xor(1 * x, 1 * x2), Xor(Xor(0 * x4, 1 * x8), 0 * xtime(x8)))
  BY DEF Multiply
<1>6. Multiply(x, 13) = Xor(Xor(1 * x, 0 * x2), Xor(Xor(1 * x4, 1 * x8), 0 * xtime(x8)))
  BY DEF Multiply
<1>7. Multiply(x, 14) = Xor(Xor(0 * x, 1 * x2), Xor(Xor(1 * x4, 1 * x8), 0 * xtime(x8)))
  BY DEF Multiply
<1>8. Multiply(x, 9) = Xor(x, x8)
  BY <1>1, <1>2, <1>3, <1>4
<1>9. Multiply(x, 11) = Xor(Xor(x, x2), x8)
  BY <1>1, <1>2, <1>3, <1>5
<1>10. Multiply(x, 13) = Xor(x, Xor(x4, x8))
  BY <1>1, <1>2, <1>3, <1>6
<1>11. Multiply(x, 14) = Xor(x2, Xor(x4, x8))
  BY <1>1, <1>2, <1>3, <1>7
<1> QED  BY <1>8, <1>9, <1>10, <1>11

(* A column's element after MixColumn: 2a + 3b + c + d.                    *)
LEMMA MixValue ==
  ASSUME NEW a \in Octet, NEW b \in Octet, NEW c \in Octet, NEW d \in Octet,
         NEW e \in Octet, e = Xor(Xor(a, b), Xor(c, d)) \/ e = Xor(Xor(d, a), Xor(b, c))
                             \/ e = Xor(Xor(c, d), Xor(a, b)) \/ e = Xor(Xor(b, c), Xor(d, a))
  PROVE  Xor(a, Xor(xtime(Xor(a, b)), e)) = Xor(Xor(xtime(a), xtime(b)), Xor(Xor(b, c), d))
<1>1. PICK a2 \in Octet, b2 \in Octet : a2 = xtime(a) /\ b2 = xtime(b)
  BY XTimeLinear
<1>2. xtime(Xor(a, b)) = Xor(a2, b2)
  BY <1>1, XTimeLinear
<1>3. /\ Xor(a2, b2) \in Octet /\ Xor(Xor(a2, b2), e) \in Octet /\ Xor(a, Xor(Xor(a2, b2), e)) \in Octet
      /\ Xor(b, c) \in Octet /\ Xor(Xor(b, c), d) \in Octet /\ Xor(Xor(a2, b2), Xor(Xor(b, c), d)) \in Octet
      /\ Xor(a, b) \in Octet /\ Xor(c, d) \in Octet /\ Xor(d, a) \in Octet
  BY XorOctet
<1>4. ASSUME NEW k \in 0..7
      PROVE  IsSet(Xor(a, Xor(Xor(a2, b2), e)), k) <=> IsSet(Xor(Xor(a2, b2), Xor(Xor(b, c), d)), k)
  <2>1. /\ IsSet(Xor(a, Xor(Xor(a2, b2), e)), k) <=> ~(IsSet(a, k) <=> IsSet(Xor(Xor(a2, b2), e), k))
        /\ IsSet(Xor(Xor(a2, b2), e), k) <=> ~(IsSet(Xor(a2, b2), k) <=> IsSet(e, k))
        /\ IsSet(Xor(a2, b2), k) <=> ~(IsSet(a2, k) <=> IsSet(b2, k))
        /\ IsSet(Xor(a, b), k) <=> ~(IsSet(a, k) <=> IsSet(b, k))
        /\ IsSet(Xor(c, d), k) <=> ~(IsSet(c, k) <=> IsSet(d, k))
        /\ IsSet(Xor(d, a), k) <=> ~(IsSet(d, k) <=> IsSet(a, k))
        /\ IsSet(Xor(b, c), k) <=> ~(IsSet(b, k) <=> IsSet(c, k))
    BY <1>3, XorBit1
  <2>2. /\ IsSet(Xor(Xor(a, b), Xor(c, d)), k) <=> ~(IsSet(Xor(a, b), k) <=> IsSet(Xor(c, d), k))
        /\ IsSet(Xor(Xor(c, d), Xor(a, b)), k) <=> ~(IsSet(Xor(c, d), k) <=> IsSet(Xor(a, b), k))
        /\ IsSet(Xor(Xor(d, a), Xor(b, c)), k) <=> ~(IsSet(Xor(d, a), k) <=> IsSet(Xor(b, c), k))
        /\ IsSet(Xor(Xor(b, c), Xor(d, a)), k) <=> ~(IsSet(Xor(b, c), k) <=> IsSet(Xor(d, a), k))
    BY <1>3, XorBit1
  <2>3. /\ IsSet(Xor(Xor(a2, b2), Xor(Xor(b, c), d)), k) <=> ~(IsSet(Xor(a2, b2), k) <=> IsSet(Xor(Xor(b, c), d), k))
        /\ IsSet(Xor(Xor(b, c), d), k) <=> ~(IsSet(Xor(b, c), k) <=> IsSet(d, k))
    BY <1>3, XorBit1
  <2>4. IsSet(e, k) <=> ~(~(IsSet(a, k) <=> IsSet(b, k)) <=> ~(IsSet(c, k) <=> IsSet(d, k)))
    BY <2>1, <2>2
  <2> QED  BY <2>1, <2>3, <2>4
<1> QED  BY <1>1, <1>2, <1>3, <1>4, SameBits, ZenonT(60) DEF Octet

(* The sums that MixColumn makes have five terms.                          *)
Sum5(p, q, r, s, u) == Xor(Xor(p, q), Xor(Xor(r, s), u))
Odd5(p, q, r, s, u, k) ==
  ~(~(IsSet(p, k) <=> IsSet(q, k)) <=> ~(~(IsSet(r, k) <=> IsSet(s, k)) <=> IsSet(u, k)))
FiveOctets(p, q, r, s, u) == p \in Octet /\ q \in Octet /\ r \in Octet /\ s \in Octet /\ u \in Octet

LEMMA Sum5Facts ==
  ASSUME NEW p, NEW q, NEW r, NEW s, NEW u, FiveOctets(p, q, r, s, u)
  PROVE  /\ Sum5(p, q, r, s, u) \in Octet
         /\ xtime(Sum5(p, q, r, s, u)) = Sum5(xtime(p), xtime(q), xtime(r), xtime(s), xtime(u))
         /\ \A k \in 0..7 : IsSet(Sum5(p, q, r, s, u), k) <=> Odd5(p, q, r, s, u, k)
<1>1. p \in Octet /\ q \in Octet /\ r \in Octet /\ s \in Octet /\ u \in Octet
  BY DEF FiveOctets
<1>2. /\ Xor(p, q) \in Octet /\ Xor(r, s) \in Octet /\ Xor(Xor(r, s), u) \in Octet
      /\ Sum5(p, q, r, s, u) \in Octet
  BY <1>1, XorOctet DEF Sum5
<1>3. /\ xtime(Xor(p, q)) = Xor(xtime(p), xtime(q))
      /\ xtime(Xor(r, s)) = Xor(xtime(r), xtime(s))
      /\ xtime(Xor(Xor(r, s), u)) = Xor(xtime(Xor(r, s)), xtime(u))
      /\ xtime(Xor(Xor(p, q), Xor(Xor(r, s), u))) = Xor(xtime(Xor(p, q)), xtime(Xor(Xor(r, s), u)))
  BY <1>1, <1>2, XTimeLinear
<1>4. xtime(Sum5(p, q, r, s, u)) = Sum5(xtime(p), xtime(q), xtime(r), xtime(s), xtime(u))
  BY <1>3 DEF Sum5
<1>5. ASSUME NEW k \in 0..7
      PROVE  IsSet(Sum5(p, q, r, s, u), k) <=> Odd5(p, q, r, s, u, k)
  <2>1. /\ IsSet(Xor(p, q), k) <=> ~(IsSet(p, k) <=> IsSet(q, k))
        /\ IsSet(Xor(r, s), k) <=> ~(IsSet(r, k) <=> IsSet(s, k))
        /\ IsSet(Xor(Xor(r, s), u), k) <=> ~(IsSet(Xor(r, s), k) <=> IsSet(u, k))
        /\ IsSet(Xor(Xor(p, q), Xor(Xor(r, s), u)), k) <=> ~(IsSet(Xor(p, q), k) <=> IsSet(Xor(Xor(r, s), u), k))
    BY <1>1, <1>2, XorBit1
  <2> QED  BY <2>1 DEF Sum5, Odd5
<1> QED  BY <1>2, <1>4, <1>5

(* The row of the inverse matrix undoes the row of the matrix.             *)
LEMMA InverseRow ==
  ASSUME NEW a \in Octet, NEW b \in Octet, NEW c \in Octet, NEW d \in Octet,
         NEW ta, NEW tb, NEW tc, NEW td,
         ta = Sum5(xtime(a), xtime(b), b, c, d), tb = Sum5(xtime(b), xtime(c), c, d, a),
         tc = Sum5(xtime(c), xtime(d), d, a, b), td = Sum5(xtime(d), xtime(a), a, b, c)
  PROVE  LET P == Multiply(ta, 14)
             Q == Multiply(tb, 11)
             R == Multiply(tc, 13)
             T == Multiply(td, 9)
         IN /\ Xor(Xor(P, Q), Xor(R, T)) = a
            /\ Xor(Xor(T, P), Xor(Q, R)) = a
            /\ Xor(Xor(R, T), Xor(P, Q)) = a
            /\ Xor(Xor(Q, R), Xor(T, P)) = a
<1>1. PICK a2 \in Octet, a4 \in Octet, a8 \in Octet, a16 \in Octet :
        a2 = xtime(a) /\ a4 = xtime(a2) /\ a8 = xtime(a4) /\ a16 = xtime(a8)
  BY XTimeLinear
<1>2. PICK b2 \in Octet, b4 \in Octet, b8 \in Octet, b16 \in Octet :
        b2 = xtime(b) /\ b4 = xtime(b2) /\ b8 = xtime(b4) /\ b16 = xtime(b8)
  BY XTimeLinear
<1>3. PICK c2 \in Octet, c4 \in Octet, c8 \in Octet, c16 \in Octet :
        c2 = xtime(c) /\ c4 = xtime(c2) /\ c8 = xtime(c4) /\ c16 = xtime(c8)
  BY XTimeLinear
<1>4. PICK d2 \in Octet, d4 \in Octet, d8 \in Octet, d16 \in Octet :
        d2 = xtime(d) /\ d4 = xtime(d2) /\ d8 = xtime(d4) /\ d16 = xtime(d8)
  BY XTimeLinear
<1>5. /\ ta = Sum5(a2, b2, b, c, d) /\ tb = Sum5(b2, c2, c, d, a)
      /\ tc = Sum5(c2, d2, d, a, b) /\ td = Sum5(d2, a2, a, b, c)
  BY <1>1, <1>2, <1>3, <1>4
<1> DEFINE ta2 == Sum5(a4, b4, b2, c2, d2)
           ta4 == Sum5(a8, b8, b4, c4, d4)
           ta8 == Sum5(a16, b16, b8, c8, d8)
           tb2 == Sum5(b4, c4, c2, d2, a2)
           tb4 == Sum5(b8, c8, c4, d4, a4)
           tb8 == Sum5(b16, c16, c8, d8, a8)
           tc2 == Sum5(c4, d4, d2, a2, b2)
           tc4 == Sum5(c8, d8, d4, a4, b4)
           tc8 == Sum5(c16, d16, d8, a8, b8)
           td2 == Sum5(d4, a4, a2, b2, c2)
           td4 == Sum5(d8, a8, a4, b4, c4)
           td8 == Sum5(d16, a16, a8, b8, c8)
<1>6. /\ FiveOctets(a2, b2, b, c, d) /\ FiveOctets(a4, b4, b2, c2, d2) /\ FiveOctets(a8, b8, b4, c4, d4)
      /\ FiveOctets(a16, b16, b8, c8, d8)
      /\ FiveOctets(b2, c2, c, d, a) /\ FiveOctets(b4, c4, c2, d2, a2) /\ FiveOctets(b8, c8, c4, d4, a4)
      /\ FiveOctets(b16, c16, c8, d8, a8)
      /\ FiveOctets(c2, d2, d, a, b) /\ FiveOctets(c4, d4, d2, a2, b2) /\ FiveOctets(c8, d8, d4, a4, b4)
      /\ FiveOctets(c16, d16, d8, a8, b8)
      /\ FiveOctets(d2, a2, a, b, c) /\ FiveOctets(d4, a4, a2, b2, c2) /\ FiveOctets(d8, a8, a4, b4, c4)
      /\ FiveOctets(d16, a16, a8, b8, c8)
  BY DEF FiveOctets
<1>7. /\ ta \in Octet /\ ta2 \in Octet /\ ta4 \in Octet /\ ta8 \in Octet
      /\ ta2 = xtime(ta) /\ ta4 = xtime(ta2) /\ ta8 = xtime(ta4)
  BY <1>5, <1>1, <1>2, <1>3, <1>4, <1>6, Sum5Facts
<1>8. /\ tb \in Octet /\ tb2 \in Octet /\ tb4 \in Octet /\ tb8 \in Octet
      /\ tb2 = xtime(tb) /\ tb4 = xtime(tb2) /\ tb8 = xtime(tb4)
  BY <1>5, <1>1, <1>2, <1>3, <1>4, <1>6, Sum5Facts
<1>9. /\ tc \in Octet /\ tc2 \in Octet /\ tc4 \in Octet /\ tc8 \in Octet
      /\ tc2 = xtime(tc) /\ tc4 = xtime(tc2) /\ tc8 = xtime(tc4)
  BY <1>5, <1>1, <1>2, <1>3, <1>4, <1>6, Sum5Facts
<1>10. /\ td \in Octet /\ td2 \in Octet /\ td4 \in Octet /\ td8 \in Octet
       /\ td2 = xtime(td) /\ td4 = xtime(td2) /\ td8 = xtime(td4)
  BY <1>5, <1>1, <1>2, <1>3, <1>4, <1>6, Sum5Facts
<1> DEFINE P == Xor(ta2, Xor(ta4, ta8))
           Q == Xor(Xor(tb, tb2), tb8)
           R == Xor(tc, Xor(tc4, tc8))
           T == Xor(td, td8)
<1>11. /\ Multiply(ta, 14) = P /\ Multiply(tb, 11) = Q
       /\ Multiply(tc, 13) = R /\ Multiply(td, 9) = T
  BY <1>7, <1>8, <1>9, <1>10, MultiplyValues
<1>12. ASSUME NEW k \in 0..7
       PROVE  IsSet(a, k) <=> ~(~(IsSet(P, k) <=> IsSet(Q, k)) <=> ~(IsSet(R, k) <=> IsSet(T, k)))
  <2>1. /\ IsSet(ta2, k) <=> Odd5(a4, b4, b2, c2, d2, k)
        /\ IsSet(ta4, k) <=> Odd5(a8, b8, b4, c4, d4, k)
        /\ IsSet(ta8, k) <=> Odd5(a16, b16, b8, c8, d8, k)
    BY <1>5, <1>6, Sum5Facts
  <2>2. /\ IsSet(tb, k) <=> Odd5(b2, c2, c, d, a, k)
        /\ IsSet(tb2, k) <=> Odd5(b4, c4, c2, d2, a2, k)
        /\ IsSet(tb8, k) <=> Odd5(b16, c16, c8, d8, a8, k)
    BY <1>5, <1>6, Sum5Facts
  <2>3. /\ IsSet(tc, k) <=> Odd5(c2, d2, d, a, b, k)
        /\ IsSet(tc4, k) <=> Odd5(c8, d8, d4, a4, b4, k)
        /\ IsSet(tc8, k) <=> Odd5(c16, d16, d8, a8, b8, k)
    BY <1>5, <1>6, Sum5Facts
  <2>4. /\ IsSet(td, k) <=> Odd5(d2, a2, a, b, c, k)
        /\ IsSet(td8, k) <=> Odd5(d16, a16, a8, b8, c8, k)
    BY <1>5, <1>6, Sum5Facts
  <2> HIDE DEF ta2, ta4, ta8, tb2, tb4, tb8, tc2, tc4, tc8, td2, td4, td8
  <2>5. /\ IsSet(P, k) <=> ~(IsSet(ta2, k) <=> ~(IsSet(ta4, k) <=> IsSet(ta8, k)))
        /\ IsSet(Q, k) <=> ~(~(IsSet(tb, k) <=> IsSet(tb2, k)) <=> IsSet(tb8, k))
        /\ IsSet(R, k) <=> ~(IsSet(tc, k) <=> ~(IsSet(tc4, k) <=> IsSet(tc8, k)))
        /\ IsSet(T, k) <=> ~(IsSet(td, k) <=> IsSet(td8, k))
    <3>1. Xor(ta4, ta8) \in Octet /\ Xor(tb, tb2) \in Octet /\ Xor(tc4, tc8) \in Octet
      BY <1>7, <1>8, <1>9, <1>10, XorOctet
    <3>2. /\ IsSet(Xor(ta4, ta8), k) <=> ~(IsSet(ta4, k) <=> IsSet(ta8, k))
          /\ IsSet(Xor(tb, tb2), k) <=> ~(IsSet(tb, k) <=> IsSet(tb2, k))
          /\ IsSet(Xor(tc4, tc8), k) <=> ~(IsSet(tc4, k) <=> IsSet(tc8, k))
      BY <1>7, <1>8, <1>9, <1>10, XorBit1
    <3>3. /\ IsSet(P, k) <=> ~(IsSet(ta2, k) <=> IsSet(Xor(ta4, ta8), k))
          /\ IsSet(Q, k) <=> ~(IsSet(Xor(tb, tb2), k) <=> IsSet(tb8, k))
          /\ IsSet(R, k) <=> ~(IsSet(tc, k) <=> IsSet(Xor(tc4, tc8), k))
          /\ IsSet(T, k) <=> ~(IsSet(td, k) <=> IsSet(td8, k))
      BY <1>7, <1>8, <1>9, <1>10, <3>1, XorBit1
    <3> QED  BY <3>2, <3>3
  <2> HIDE DEF P, Q, R, T
  <2> QED  BY <2>1, <2>2, <2>3, <2>4, <2>5 DEF Odd5
<1> HIDE DEF ta2, ta4, ta8, tb2, tb4, tb8, tc2, tc4, tc8, td2, td4, td8
<1>13. P \in Octet /\ Q \in Octet /\ R \in Octet /\ T \in Octet
  BY <1>7, <1>8, <1>9, <1>10, XorOctet
<1> HIDE DEF P, Q, R, T
<1>14. Xor(P, Q) \in Octet /\ Xor(R, T) \in Octet /\ Xor(T, P) \in Octet /\ Xor(Q, R) \in Octet
  BY <1>13, XorOctet
<1> DEFINE V == {Xor(Xor(P, Q), Xor(R, T)), Xor(Xor(T, P), Xor(Q, R)),
                 Xor(Xor(R, T), Xor(P, Q)), Xor(Xor(Q, R), Xor(T, P))}
<1>15. V \subseteq Octet
  BY <1>14, XorOctet
<1>16. ASSUME NEW v \in V, NEW k \in 0..7
       PROVE  IsSet(v, k) <=> IsSet(a, k)
  <2>1. /\ IsSet(Xor(P, Q), k) <=> ~(IsSet(P, k) <=> IsSet(Q, k))
        /\ IsSet(Xor(R, T), k) <=> ~(IsSet(R, k) <=> IsSet(T, k))
        /\ IsSet(Xor(T, P), k) <=> ~(IsSet(T, k) <=> IsSet(P, k))
        /\ IsSet(Xor(Q, R), k) <=> ~(IsSet(Q, k) <=> IsSet(R, k))
    BY <1>13, XorBit1
  <2>2. /\ IsSet(Xor(Xor(P, Q), Xor(R, T)), k) <=> ~(IsSet(Xor(P, Q), k) <=> IsSet(Xor(R, T), k))
        /\ IsSet(Xor(Xor(T, P), Xor(Q, R)), k) <=> ~(IsSet(Xor(T, P), k) <=> IsSet(Xor(Q, R), k))
        /\ IsSet(Xor(Xor(R, T), Xor(P, Q)), k) <=> ~(IsSet(Xor(R, T), k) <=> IsSet(Xor(P, Q), k))
        /\ IsSet(Xor(Xor(Q, R), Xor(T, P)), k) <=> ~(IsSet(Xor(Q, R), k) <=> IsSet(Xor(T, P), k))
    BY <1>14, XorBit1
  <2> QED  BY <1>12, <2>1, <2>2
<1>17. \A v \in V : v = a
  BY <1>15, <1>16, SameBits, ZenonT(60) DEF Octet
<1> QED  BY <1>11, <1>17

-----------------------------------------------------------------------------
(* Products of the standard's field, its inverses and the S-box.           *)

(* Doubling in the standard's field is the xtime macro.                    *)
LEMMA DoubledIsXTime == ASSUME NEW a \in Octet PROVE Doubled(a) = xtime(a)
<1>1. CASE a < 128
  <2>1. /\ (2 * a) % 256 = 2 * a /\ 2 * a \in Octet
        /\ ~(a >= 128)
    BY <1>1 DEF Octet
  <2>2. xtime(a) = Xor(2 * a, 0)
    BY <2>1 DEF xtime
  <2> QED  BY <1>1, <2>1, <2>2, XorZero DEF Doubled
<1>2. CASE ~(a < 128)
  <2>1. (2 * a) % 256 = 2 * a - 256 /\ a >= 128
    BY <1>2 DEF Octet
  <2> QED  BY <1>2, <2>1 DEF Doubled, xtime
<1> QED  BY <1>1, <1>2

LEMMA PowersOfTwo ==
  ASSUME NEW k \in 0..7
  PROVE  2^k \in Nat \ {0}
<1>1. CASE k = 0  BY <1>1
<1>2. CASE k = 1  BY <1>2
<1>3. CASE k = 2  BY <1>3
<1>4. CASE k = 3  BY <1>4
<1>5. CASE k = 4  BY <1>5
<1>6. CASE k = 5  BY <1>6
<1>7. CASE k = 6  BY <1>7
<1>8. CASE k = 7  BY <1>8
<1> QED  BY <1>1, <1>2, <1>3, <1>4, <1>5, <1>6, <1>7, <1>8

(* A product of the field is made in eight steps, the high bit of b first. *)
LEMMA ProductSteps ==
  ASSUME NEW a \in Octet, NEW b \in Octet
  PROVE  \E p \in [0..8 -> Octet] :
           /\ p[0] = 0 /\ p[8] = Product(a, b)
           /\ \A m \in 0..7 : p[m + 1] = Xor(xtime(p[m]), IF IsSet(b, 7 - m) THEN a ELSE 0)
<1> DEFINE step(q, k) == Xor(Doubled(q), ((b \div 2^k) % 2) * a)
<1>1. 0 \in Octet
  BY DEF Octet
<1>2. ASSUME NEW k \in {0, 1, 2, 3, 4, 5, 6, 7}
      PROVE  ((b \div 2^k) % 2) * a = IF IsSet(b, k) THEN a ELSE 0
  <2>1. (b \div 2^k) % 2 = 0 \/ (b \div 2^k) % 2 = 1
    <3>1. 2^k \in Nat \ {0}
      <4>1. k \in 0..7
        OBVIOUS
      <4> QED  BY <4>1, PowersOfTwo
    <3>2. PICK e \in Nat \ {0} : e = 2^k
      BY <3>1
    <3>3. b \div e \in Nat
      BY DEF Octet
    <3> QED  BY <3>2, <3>3
  <2>2. 0 * a = 0 /\ 1 * a = a
    BY DEF Octet
  <2> QED  BY <2>1, <2>2 DEF IsSet
<1>3. ASSUME NEW q \in Octet, NEW k \in {0, 1, 2, 3, 4, 5, 6, 7}
      PROVE  /\ step(q, k) = Xor(xtime(q), IF IsSet(b, k) THEN a ELSE 0)
             /\ step(q, k) \in Octet
  <2>1. step(q, k) = Xor(xtime(q), IF IsSet(b, k) THEN a ELSE 0)
    BY <1>2, DoubledIsXTime
  <2>2. xtime(q) \in Octet /\ (IF IsSet(b, k) THEN a ELSE 0) \in Octet
    BY <1>1, XTimeLinear
  <2> QED  BY <2>1, <2>2, XorOctet
<1>4. Product(a, b) = step(step(step(step(step(step(step(step(0, 7), 6), 5), 4), 3), 2), 1), 0)
  BY DEF Product
<1> HIDE DEF step
<1>5. PICK p1 \in Octet, p2 \in Octet, p3 \in Octet, p4 \in Octet :
         p1 = step(0, 7) /\ p2 = step(p1, 6) /\ p3 = step(p2, 5) /\ p4 = step(p3, 4)
  BY <1>1, <1>3
<1>6. PICK p5 \in Octet, p6 \in Octet, p7 \in Octet, p8 \in Octet :
         p5 = step(p4, 3) /\ p6 = step(p5, 2) /\ p7 = step(p6, 1) /\ p8 = step(p7, 0)
  BY <1>3
<1> DEFINE v == << 0, p1, p2, p3, p4, p5, p6, p7, p8 >>
           p == [m \in 0..8 |-> v[m + 1]]
<1>7. /\ p[0] = 0 /\ p[1] = p1 /\ p[2] = p2 /\ p[3] = p3 /\ p[4] = p4
      /\ p[5] = p5 /\ p[6] = p6 /\ p[7] = p7 /\ p[8] = p8
  OBVIOUS
<1>8. p \in [0..8 -> Octet]
  <2>1. \A m \in 1..9 : v[m] \in Octet
    BY <1>1
  <2> QED  BY <2>1
<1> HIDE DEF p
<1>9. p[8] = Product(a, b)
  BY <1>4, <1>5, <1>6, <1>7
<1>10. ASSUME NEW m \in 0..7
       PROVE  p[m + 1] = step(p[m], 7 - m)
  BY <1>5, <1>6, <1>7
<1>11. \A m \in 0..7 : p[m + 1] = Xor(xtime(p[m]), IF IsSet(b, 7 - m) THEN a ELSE 0)
  BY <1>3, <1>8, <1>10
<1> QED  BY <1>7, <1>8, <1>9, <1>11

(* One such step, bit by bit.                                              *)
StepBits(p, q, a, set) ==
  /\ IsSet(q, 0) <=> ~(IsSet(p, 7) <=> (set /\ IsSet(a, 0)))
  /\ IsSet(q, 1) <=> ~(~(IsSet(p, 0) <=> IsSet(p, 7)) <=> (set /\ IsSet(a, 1)))
  /\ IsSet(q, 2) <=> ~(IsSet(p, 1) <=> (set /\ IsSet(a, 2)))
  /\ IsSet(q, 3) <=> ~(~(IsSet(p, 2) <=> IsSet(p, 7)) <=> (set /\ IsSet(a, 3)))
  /\ IsSet(q, 4) <=> ~(~(IsSet(p, 3) <=> IsSet(p, 7)) <=> (set /\ IsSet(a, 4)))
  /\ IsSet(q, 5) <=> ~(IsSet(p, 4) <=> (set /\ IsSet(a, 5)))
  /\ IsSet(q, 6) <=> ~(IsSet(p, 5) <=> (set /\ IsSet(a, 6)))
  /\ IsSet(q, 7) <=> ~(IsSet(p, 6) <=> (set /\ IsSet(a, 7)))

LEMMA ZeroBits == \A k \in 0..7 : ~IsSet(0, k)
<1>1. /\ ~IsSet(0, 0) /\ ~IsSet(0, 1) /\ ~IsSet(0, 2) /\ ~IsSet(0, 3)
      /\ ~IsSet(0, 4) /\ ~IsSet(0, 5) /\ ~IsSet(0, 6) /\ ~IsSet(0, 7)
  BY DEF IsSet
<1> QED  BY <1>1

LEMMA StepBitsHold ==
  ASSUME NEW p \in Octet, NEW a \in Octet, NEW set \in BOOLEAN
  PROVE  StepBits(p, Xor(xtime(p), IF set THEN a ELSE 0), a, set)
<1>1. PICK c \in Octet : c = IF set THEN a ELSE 0
  BY DEF Octet
<1>2. \A k \in 0..7 : IsSet(c, k) <=> (set /\ IsSet(a, k))
  BY <1>1, ZeroBits
<1>3. xtime(p) \in Octet
  BY XTimeLinear
<1>4. \A k \in 0..7 : IsSet(Xor(xtime(p), c), k) <=> ~(IsSet(xtime(p), k) <=> IsSet(c, k))
  BY <1>3, XorBit1
<1>5. \A k \in {0, 1, 2, 3, 4, 5, 6, 7} : IsSet(Xor(xtime(p), c), k) <=> ~(IsSet(xtime(p), k) <=> (set /\ IsSet(a, k)))
  BY <1>2, <1>4
<1>6. /\ IsSet(xtime(p), 0) <=> IsSet(p, 7)
      /\ IsSet(xtime(p), 1) <=> ~(IsSet(p, 0) <=> IsSet(p, 7))
      /\ IsSet(xtime(p), 2) <=> IsSet(p, 1)
      /\ IsSet(xtime(p), 3) <=> ~(IsSet(p, 2) <=> IsSet(p, 7))
      /\ IsSet(xtime(p), 4) <=> ~(IsSet(p, 3) <=> IsSet(p, 7))
      /\ IsSet(xtime(p), 5) <=> IsSet(p, 4)
      /\ IsSet(xtime(p), 6) <=> IsSet(p, 5)
      /\ IsSet(xtime(p), 7) <=> IsSet(p, 6)
  BY XTimeBits DEF Octet
<1>7. PICK q : q = Xor(xtime(p), c)
  OBVIOUS
<1>8. StepBits(p, q, a, set)
  BY <1>5, <1>6, <1>7 DEF StepBits
<1> QED  BY <1>1, <1>7, <1>8

LEMMA ProductBits ==
  ASSUME NEW a \in Octet, NEW b \in Octet
  PROVE  \E p \in [0..8 -> Octet] :
           /\ p[0] = 0 /\ p[8] = Product(a, b)
           /\ \A m \in 0..7 : StepBits(p[m], p[m + 1], a, IsSet(b, 7 - m))
<1>1. PICK p \in [0..8 -> Octet] :
           /\ p[0] = 0 /\ p[8] = Product(a, b)
           /\ \A m \in 0..7 : p[m + 1] = Xor(xtime(p[m]), IF IsSet(b, 7 - m) THEN a ELSE 0)
  BY ProductSteps
<1>2. IsSet(a, 0) \in BOOLEAN /\ \A m \in 0..7 : IsSet(b, m) \in BOOLEAN
  BY DEF IsSet
<1>3. ASSUME NEW m \in 0..7
      PROVE  StepBits(p[m], p[m + 1], a, IsSet(b, 7 - m))
  <2>1. p[m] \in Octet /\ 7 - m \in 0..7
    OBVIOUS
  <2>2. IsSet(b, 7 - m) \in BOOLEAN
    BY <1>2, <2>1
  <2>3. StepBits(p[m], Xor(xtime(p[m]), IF IsSet(b, 7 - m) THEN a ELSE 0), a, IsSet(b, 7 - m))
    BY <2>1, <2>2, StepBitsHold
  <2> QED  BY <1>1, <2>3
<1> QED  BY <1>1, <1>3

(* There are no divisors of zero.                                          *)
LEMMA NoZeroDivisor ==
  ASSUME NEW a \in Octet, NEW b \in Octet, Product(a, b) = 0, a # 0
  PROVE  b = 0
<1>1. PICK p \in [0..8 -> Octet] :
           /\ p[0] = 0 /\ p[8] = Product(a, b)
           /\ \A m \in 0..7 : StepBits(p[m], p[m + 1], a, IsSet(b, 7 - m))
  BY ProductBits
<1>2. /\ StepBits(0, p[1], a, IsSet(b, 7)) /\ StepBits(p[1], p[2], a, IsSet(b, 6))
      /\ StepBits(p[2], p[3], a, IsSet(b, 5)) /\ StepBits(p[3], p[4], a, IsSet(b, 4))
      /\ StepBits(p[4], p[5], a, IsSet(b, 3)) /\ StepBits(p[5], p[6], a, IsSet(b, 2))
      /\ StepBits(p[6], p[7], a, IsSet(b, 1)) /\ StepBits(p[7], 0, a, IsSet(b, 0))
  BY <1>1
<1>3. /\ ~IsSet(0, 0) /\ ~IsSet(0, 1) /\ ~IsSet(0, 2) /\ ~IsSet(0, 3)
      /\ ~IsSet(0, 4) /\ ~IsSet(0, 5) /\ ~IsSet(0, 6) /\ ~IsSet(0, 7)
  BY ZeroBits
<1>4. \/ /\ ~IsSet(a, 0) /\ ~IsSet(a, 1) /\ ~IsSet(a, 2) /\ ~IsSet(a, 3)
         /\ ~IsSet(a, 4) /\ ~IsSet(a, 5) /\ ~IsSet(a, 6) /\ ~IsSet(a, 7)
      \/ /\ ~IsSet(b, 0) /\ ~IsSet(b, 1) /\ ~IsSet(b, 2) /\ ~IsSet(b, 3)
         /\ ~IsSet(b, 4) /\ ~IsSet(b, 5) /\ ~IsSet(b, 6) /\ ~IsSet(b, 7)
  BY <1>2, <1>3, SMTT(60) DEF StepBits
<1>5. \/ \A k \in 0..7 : IsSet(a, k) <=> IsSet(0, k)
      \/ \A k \in 0..7 : IsSet(b, k) <=> IsSet(0, k)
  BY <1>4, ZeroBits
<1>6. 0 \in 0..255 /\ a \in 0..255 /\ b \in 0..255
  BY DEF Octet
<1>7. CASE \A k \in 0..7 : IsSet(a, k) <=> IsSet(0, k)
  <2>1. a = 0
    BY <1>6, <1>7, SameBits
  <2> QED  BY <2>1
<1>8. CASE \A k \in 0..7 : IsSet(b, k) <=> IsSet(0, k)
  BY <1>6, <1>8, SameBits
<1> QED  BY <1>5, <1>7, <1>8

FourOctets(x, y, u, v) == x \in Octet /\ y \in Octet /\ u \in Octet /\ v \in Octet

(* The step distributes over Xor.                                          *)
LEMMA LinearStep ==
  ASSUME NEW x, NEW y, NEW u, NEW v, FourOctets(x, y, u, v)
  PROVE  Xor(xtime(Xor(x, y)), Xor(u, v)) = Xor(Xor(xtime(x), u), Xor(xtime(y), v))
<1>1. x \in Octet /\ y \in Octet /\ u \in Octet /\ v \in Octet
  BY DEF FourOctets
<1>2. /\ xtime(Xor(x, y)) = Xor(xtime(x), xtime(y))
      /\ xtime(x) \in Octet /\ xtime(y) \in Octet
  BY <1>1, XTimeLinear
<1> QED  BY <1>1, <1>2, XorSwap

(* So the product does.                                                    *)
LEMMA ProductLinear ==
  ASSUME NEW a \in Octet, NEW b \in Octet, NEW c \in Octet
  PROVE  /\ Product(a, b) \in Octet
         /\ Product(a, Xor(b, c)) = Xor(Product(a, b), Product(a, c))
<1>1. PICK p \in [0..8 -> Octet] :
           /\ p[0] = 0 /\ p[8] = Product(a, b)
           /\ \A m \in 0..7 : p[m + 1] = Xor(xtime(p[m]), IF IsSet(b, 7 - m) THEN a ELSE 0)
  BY ProductSteps
<1>2. PICK q \in [0..8 -> Octet] :
           /\ q[0] = 0 /\ q[8] = Product(a, c)
           /\ \A m \in 0..7 : q[m + 1] = Xor(xtime(q[m]), IF IsSet(c, 7 - m) THEN a ELSE 0)
  BY ProductSteps
<1>3. Xor(b, c) \in Octet
  BY XorOctet
<1>4. PICK r \in [0..8 -> Octet] :
           /\ r[0] = 0 /\ r[8] = Product(a, Xor(b, c))
           /\ \A m \in 0..7 : r[m + 1] = Xor(xtime(r[m]), IF IsSet(Xor(b, c), 7 - m) THEN a ELSE 0)
  BY <1>3, ProductSteps
<1>5. ASSUME NEW m \in 0..7, r[m] = Xor(p[m], q[m])
      PROVE  r[m + 1] = Xor(p[m + 1], q[m + 1])
  <2>1. PICK x \in Octet, y \in Octet : x = p[m] /\ y = q[m]
    OBVIOUS
  <2>2. 7 - m \in 0..7
    OBVIOUS
  <2> DEFINE u == IF IsSet(b, 7 - m) THEN a ELSE 0
             v == IF IsSet(c, 7 - m) THEN a ELSE 0
             w == IF IsSet(Xor(b, c), 7 - m) THEN a ELSE 0
  <2>3. u \in Octet /\ v \in Octet /\ w = Xor(u, v)
    <3>1. IsSet(Xor(b, c), 7 - m) <=> ~(IsSet(b, 7 - m) <=> IsSet(c, 7 - m))
      BY <2>2, XorBit1
    <3>2. 0 \in Octet
      BY DEF Octet
    <3>3. Xor(a, a) = 0 /\ Xor(a, 0) = a /\ Xor(0, a) = a /\ Xor(0, 0) = 0
      BY <3>2, XorLaws
    <3> QED  BY <3>1, <3>2, <3>3
  <2>4. p[m + 1] = Xor(xtime(x), u) /\ q[m + 1] = Xor(xtime(y), v) /\ r[m + 1] = Xor(xtime(Xor(x, y)), w)
    BY <1>1, <1>2, <1>4, <1>5, <2>1
  <2> HIDE DEF u, v, w
  <2>5. FourOctets(x, y, u, v)
    BY <2>3 DEF FourOctets
  <2>6. Xor(xtime(Xor(x, y)), Xor(u, v)) = Xor(Xor(xtime(x), u), Xor(xtime(y), v))
    BY <2>5, LinearStep
  <2> QED  BY <2>3, <2>4, <2>6
<1>6. r[0] = Xor(p[0], q[0])
  BY <1>1, <1>2, <1>4, XorZero DEF Octet
<1>7. r[8] = Xor(p[8], q[8])
  <2>1. r[1] = Xor(p[1], q[1])
    BY <1>5, <1>6
  <2>2. r[2] = Xor(p[2], q[2])
    BY <1>5, <2>1
  <2>3. r[3] = Xor(p[3], q[3])
    BY <1>5, <2>2
  <2>4. r[4] = Xor(p[4], q[4])
    BY <1>5, <2>3
  <2>5. r[5] = Xor(p[5], q[5])
    BY <1>5, <2>4
  <2>6. r[6] = Xor(p[6], q[6])
    BY <1>5, <2>5
  <2>7. r[7] = Xor(p[7], q[7])
    BY <1>5, <2>6
  <2> QED  BY <1>5, <2>7
<1> QED  BY <1>1, <1>2, <1>4, <1>7

(* The multiplicative inverses, as a table: Inverse chooses them.          *)
InverseTable ==
  <<   0,   1, 141, 246, 203,  82, 123, 209, 232,  79,  41, 192, 176, 225, 229, 199,
     116, 180, 170,  75, 153,  43,  96,  95,  88,  63, 253, 204, 255,  64, 238, 178,
      58, 110,  90, 241,  85,  77, 168, 201, 193,  10, 152,  21,  48,  68, 162, 194,
      44,  69, 146, 108, 243,  57, 102,  66, 242,  53,  32, 111, 119, 187,  89,  25,
      29, 254,  55, 103,  45,  49, 245, 105, 167, 100, 171,  19,  84,  37, 233,   9,
     237,  92,   5, 202,  76,  36, 135, 191,  24,  62,  34, 240,  81, 236,  97,  23,
      22,  94, 175, 211,  73, 166,  54,  67, 244,  71, 145, 223,  51, 147,  33,  59,
     121, 183, 151, 133,  16, 181, 186,  60, 182, 112, 208,   6, 161, 250, 129, 130,
     131, 126, 127, 128, 150, 115, 190,  86, 155, 158, 149, 217, 247,   2, 185, 164,
     222, 106,  50, 109, 216, 138, 132, 114,  42,  20, 159, 136, 249, 220, 137, 154,
     251, 124,  46, 195, 143, 184, 101,  72,  38, 200,  18,  74, 206, 231, 210,  98,
      12, 224,  31, 239,  17, 117, 120, 113, 165, 142, 118,  61, 189, 188, 134,  87,
      11,  40,  47, 163, 218, 212, 228,  15, 169,  39,  83,   4,  27, 252, 172, 230,
     122,   7, 174,  99, 197, 219, 226, 234, 148, 139, 196, 213, 157, 248, 144, 107,
     177,  13, 214, 235, 198,  14, 207, 173,   8,  78, 215, 227,  93,  80,  30, 179,
      91,  35,  56,  52, 104,  70,   3, 140, 221, 156, 125, 160, 205,  26,  65,  28 >>

(* The bits of a value that is given.                                      *)
BitsOf(x) ==
  /\ IsSet(x, 0) <=> x % 2 = 1
  /\ IsSet(x, 1) <=> (x \div 2) % 2 = 1
  /\ IsSet(x, 2) <=> (x \div 4) % 2 = 1
  /\ IsSet(x, 3) <=> (x \div 8) % 2 = 1
  /\ IsSet(x, 4) <=> (x \div 16) % 2 = 1
  /\ IsSet(x, 5) <=> (x \div 32) % 2 = 1
  /\ IsSet(x, 6) <=> (x \div 64) % 2 = 1
  /\ IsSet(x, 7) <=> (x \div 128) % 2 = 1

LEMMA BitsOfOctet == ASSUME NEW x \in Octet PROVE BitsOf(x)
<1>1. x % 2 = (x \div 2^0) % 2
  BY DEF Octet
<1> QED  BY <1>1 DEF BitsOf, IsSet

(* Each value times its entry of the table is 1.                           *)
LEMMA InverseProduct ==
  ASSUME NEW a \in 1..255
  PROVE  Product(a, InverseTable[a + 1]) = 1
<1>1. PICK b \in Octet : b = InverseTable[a + 1]
  BY DEF InverseTable, Octet
<1>2. a \in Octet
  BY DEF Octet
<1>3. PICK p \in [0..8 -> Octet] :
           /\ p[0] = 0 /\ p[8] = Product(a, b)
           /\ \A m \in 0..7 : StepBits(p[m], p[m + 1], a, IsSet(b, 7 - m))
  BY <1>2, ProductBits
<1>4. /\ StepBits(0, p[1], a, IsSet(b, 7)) /\ StepBits(p[1], p[2], a, IsSet(b, 6))
      /\ StepBits(p[2], p[3], a, IsSet(b, 5)) /\ StepBits(p[3], p[4], a, IsSet(b, 4))
      /\ StepBits(p[4], p[5], a, IsSet(b, 3)) /\ StepBits(p[5], p[6], a, IsSet(b, 2))
      /\ StepBits(p[6], p[7], a, IsSet(b, 1)) /\ StepBits(p[7], p[8], a, IsSet(b, 0))
  BY <1>3
<1>5. BitsOf(a) /\ BitsOf(b)
  BY <1>2, BitsOfOctet
<1>6. /\ ~IsSet(0, 0) /\ ~IsSet(0, 1) /\ ~IsSet(0, 2) /\ ~IsSet(0, 3)
      /\ ~IsSet(0, 4) /\ ~IsSet(0, 5) /\ ~IsSet(0, 6) /\ ~IsSet(0, 7)
  BY ZeroBits
<1>7. /\ IsSet(p[8], 0) /\ ~IsSet(p[8], 1) /\ ~IsSet(p[8], 2) /\ ~IsSet(p[8], 3)
      /\ ~IsSet(p[8], 4) /\ ~IsSet(p[8], 5) /\ ~IsSet(p[8], 6) /\ ~IsSet(p[8], 7)
  <2>1. CASE a \in 1..31
    BY <1>1, <1>4, <1>5, <1>6, <2>1, SMTT(120) DEF StepBits, BitsOf, InverseTable
  <2>2. CASE a \in 32..63
    BY <1>1, <1>4, <1>5, <1>6, <2>2, SMTT(120) DEF StepBits, BitsOf, InverseTable
  <2>3. CASE a \in 64..95
    BY <1>1, <1>4, <1>5, <1>6, <2>3, SMTT(120) DEF StepBits, BitsOf, InverseTable
  <2>4. CASE a \in 96..127
    BY <1>1, <1>4, <1>5, <1>6, <2>4, SMTT(120) DEF StepBits, BitsOf, InverseTable
  <2>5. CASE a \in 128..159
    BY <1>1, <1>4, <1>5, <1>6, <2>5, SMTT(120) DEF StepBits, BitsOf, InverseTable
  <2>6. CASE a \in 160..191
    BY <1>1, <1>4, <1>5, <1>6, <2>6, SMTT(120) DEF StepBits, BitsOf, InverseTable
  <2>7. CASE a \in 192..223
    BY <1>1, <1>4, <1>5, <1>6, <2>7, SMTT(120) DEF StepBits, BitsOf, InverseTable
  <2>8. CASE a \in 224..255
    BY <1>1, <1>4, <1>5, <1>6, <2>8, SMTT(120) DEF StepBits, BitsOf, InverseTable
  <2>9. a \in 1..255
    OBVIOUS
  <2> QED  BY <2>1, <2>2, <2>3, <2>4, <2>5, <2>6, <2>7, <2>8, <2>9
<1>8. /\ IsSet(1, 0) /\ ~IsSet(1, 1) /\ ~IsSet(1, 2) /\ ~IsSet(1, 3)
      /\ ~IsSet(1, 4) /\ ~IsSet(1, 5) /\ ~IsSet(1, 6) /\ ~IsSet(1, 7)
  BY DEF IsSet
<1>9. \A k \in 0..7 : IsSet(p[8], k) <=> IsSet(1, k)
  BY <1>7, <1>8
<1>10. p[8] \in 0..255 /\ 1 \in 0..255
  BY DEF Octet
<1> QED  BY <1>1, <1>3, <1>9, <1>10, SameBits

(* No other value is chosen: there are no divisors of zero.                *)
LEMMA InverseIsTable ==
  ASSUME NEW a \in Octet
  PROVE  Inverse(a) = InverseTable[a + 1]
<1>1. CASE a = 0
  BY <1>1 DEF Inverse, InverseTable
<1>2. CASE a # 0
  <2>1. PICK t \in Octet : t = InverseTable[a + 1]
    BY DEF InverseTable, Octet
  <2>2. Product(a, t) = 1
    BY <1>2, <2>1, InverseProduct DEF Octet
  <2>3. t \in 1..255
    BY <1>2, <2>1 DEF InverseTable, Octet
  <2>4. ASSUME NEW b \in 1..255, Product(a, b) = 1
        PROVE  b = t
    <3>1. b \in Octet /\ 1 \in Octet
      BY DEF Octet
    <3>2. Xor(b, t) \in Octet /\ Xor(1, 1) = 0
      BY <3>1, XorOctet, XorLaws
    <3>3. Product(a, Xor(b, t)) = 0
      BY <2>2, <2>4, <3>1, <3>2, ProductLinear
    <3>4. Xor(b, t) = 0
      BY <1>2, <3>2, <3>3, NoZeroDivisor
    <3>5. Xor(Xor(b, t), t) = b
      BY <3>1, XorTwice
    <3>6. Xor(0, t) = t
      BY XorZero
    <3> QED  BY <3>4, <3>5, <3>6
  <2>5. Inverse(a) = CHOOSE b \in 1..255 : Product(a, b) = 1
    BY <1>2 DEF Inverse
  <2> QED  BY <2>1, <2>2, <2>3, <2>4, <2>5
<1> QED  BY <1>1, <1>2

LEMMA BitValue == ASSUME NEW x \in Octet, NEW k \in 0..7 PROVE (x \div 2^k) % 2 = IF IsSet(x, k) THEN 1 ELSE 0
<1>1. PICK e \in Nat \ {0} : e = 2^k
  BY PowersOfTwo
<1>2. (x \div e) % 2 = 0 \/ (x \div e) % 2 = 1
  <2>1. x \div e \in Nat
    BY DEF Octet
  <2> QED  BY <2>1
<1> QED  BY <1>1, <1>2 DEF IsSet

(* The affine transformation of the standard, bit by bit.                  *)
LEMMA AffineBits ==
  ASSUME NEW x \in Octet
  PROVE  \E v \in Octet :
           /\ Affine(x) = Xor(99, v)
           /\ IsSet(v, 0) <=> ~(~(~(IsSet(x, 0) <=> IsSet(x, 4)) <=> ~(IsSet(x, 5) <=> IsSet(x, 6))) <=> IsSet(x, 7))
           /\ IsSet(v, 1) <=> ~(~(~(IsSet(x, 1) <=> IsSet(x, 5)) <=> ~(IsSet(x, 6) <=> IsSet(x, 7))) <=> IsSet(x, 0))
           /\ IsSet(v, 2) <=> ~(~(~(IsSet(x, 2) <=> IsSet(x, 6)) <=> ~(IsSet(x, 7) <=> IsSet(x, 0))) <=> IsSet(x, 1))
           /\ IsSet(v, 3) <=> ~(~(~(IsSet(x, 3) <=> IsSet(x, 7)) <=> ~(IsSet(x, 0) <=> IsSet(x, 1))) <=> IsSet(x, 2))
           /\ IsSet(v, 4) <=> ~(~(~(IsSet(x, 4) <=> IsSet(x, 0)) <=> ~(IsSet(x, 1) <=> IsSet(x, 2))) <=> IsSet(x, 3))
           /\ IsSet(v, 5) <=> ~(~(~(IsSet(x, 5) <=> IsSet(x, 1)) <=> ~(IsSet(x, 2) <=> IsSet(x, 3))) <=> IsSet(x, 4))
           /\ IsSet(v, 6) <=> ~(~(~(IsSet(x, 6) <=> IsSet(x, 2)) <=> ~(IsSet(x, 3) <=> IsSet(x, 4))) <=> IsSet(x, 5))
           /\ IsSet(v, 7) <=> ~(~(~(IsSet(x, 7) <=> IsSet(x, 3)) <=> ~(IsSet(x, 4) <=> IsSet(x, 5))) <=> IsSet(x, 6))
<1> DEFINE bit(k) == (x \div 2^(k % 8)) % 2
           d(k) == (bit(k) + bit(k + 4) + bit(k + 5) + bit(k + 6) + bit(k + 7)) % 2
           v == d(0) * 2^0 + d(1) * 2^1 + d(2) * 2^2 + d(3) * 2^3 + d(4) * 2^4 + d(5) * 2^5 + d(6) * 2^6 + d(7) * 2^7
<1>1. Affine(x) = Xor(99, v)
  BY DEF Affine
<1>2. ASSUME NEW k \in 0..14
      PROVE  bit(k) = IF IsSet(x, k % 8) THEN 1 ELSE 0
  <2>1. k % 8 \in 0..7
    OBVIOUS
  <2> QED  BY <2>1, BitValue
<1> HIDE DEF bit
<1>3. ASSUME NEW k \in 0..7
      PROVE  d(k) = IF ~(~(~(IsSet(x, k % 8) <=> IsSet(x, (k + 4) % 8))
                         <=> ~(IsSet(x, (k + 5) % 8) <=> IsSet(x, (k + 6) % 8))) <=> IsSet(x, (k + 7) % 8))
                    THEN 1 ELSE 0
  <2>1. /\ k \in 0..14 /\ k + 4 \in 0..14 /\ k + 5 \in 0..14 /\ k + 6 \in 0..14 /\ k + 7 \in 0..14
    OBVIOUS
  <2>2. /\ bit(k) = IF IsSet(x, k % 8) THEN 1 ELSE 0
        /\ bit(k + 4) = IF IsSet(x, (k + 4) % 8) THEN 1 ELSE 0
        /\ bit(k + 5) = IF IsSet(x, (k + 5) % 8) THEN 1 ELSE 0
        /\ bit(k + 6) = IF IsSet(x, (k + 6) % 8) THEN 1 ELSE 0
        /\ bit(k + 7) = IF IsSet(x, (k + 7) % 8) THEN 1 ELSE 0
    BY <1>2, <2>1
  <2> QED  BY <2>2
<1> HIDE DEF d
<1>4. \A k \in 0..7 : d(k) \in {0, 1}
  BY <1>3
<1>5. PICK d0 \in {0, 1}, d1 \in {0, 1}, d2 \in {0, 1}, d3 \in {0, 1},
           d4 \in {0, 1}, d5 \in {0, 1}, d6 \in {0, 1}, d7 \in {0, 1} :
        /\ d0 = d(0) /\ d1 = d(1) /\ d2 = d(2) /\ d3 = d(3)
        /\ d4 = d(4) /\ d5 = d(5) /\ d6 = d(6) /\ d7 = d(7)
  BY <1>4
<1>6. PICK w \in Octet : w = d0 + 2 * d1 + 4 * d2 + 8 * d3 + 16 * d4 + 32 * d5 + 64 * d6 + 128 * d7
  BY DEF Octet
<1>7. v = w
  <2>1. v = d0 * 2^0 + d1 * 2^1 + d2 * 2^2 + d3 * 2^3 + d4 * 2^4 + d5 * 2^5 + d6 * 2^6 + d7 * 2^7
    BY <1>5
  <2> QED  BY <1>6, <2>1
<1>8. /\ IsSet(w, 0) <=> d0 = 1
      /\ IsSet(w, 1) <=> d1 = 1
      /\ IsSet(w, 2) <=> d2 = 1
      /\ IsSet(w, 3) <=> d3 = 1
      /\ IsSet(w, 4) <=> d4 = 1
      /\ IsSet(w, 5) <=> d5 = 1
      /\ IsSet(w, 6) <=> d6 = 1
      /\ IsSet(w, 7) <=> d7 = 1
  BY <1>6 DEF IsSet
<1>9. /\ d(0) = 1 <=> ~(~(~(IsSet(x, 0) <=> IsSet(x, 4)) <=> ~(IsSet(x, 5) <=> IsSet(x, 6))) <=> IsSet(x, 7))
      /\ d(1) = 1 <=> ~(~(~(IsSet(x, 1) <=> IsSet(x, 5)) <=> ~(IsSet(x, 6) <=> IsSet(x, 7))) <=> IsSet(x, 0))
      /\ d(2) = 1 <=> ~(~(~(IsSet(x, 2) <=> IsSet(x, 6)) <=> ~(IsSet(x, 7) <=> IsSet(x, 0))) <=> IsSet(x, 1))
      /\ d(3) = 1 <=> ~(~(~(IsSet(x, 3) <=> IsSet(x, 7)) <=> ~(IsSet(x, 0) <=> IsSet(x, 1))) <=> IsSet(x, 2))
      /\ d(4) = 1 <=> ~(~(~(IsSet(x, 4) <=> IsSet(x, 0)) <=> ~(IsSet(x, 1) <=> IsSet(x, 2))) <=> IsSet(x, 3))
      /\ d(5) = 1 <=> ~(~(~(IsSet(x, 5) <=> IsSet(x, 1)) <=> ~(IsSet(x, 2) <=> IsSet(x, 3))) <=> IsSet(x, 4))
      /\ d(6) = 1 <=> ~(~(~(IsSet(x, 6) <=> IsSet(x, 2)) <=> ~(IsSet(x, 3) <=> IsSet(x, 4))) <=> IsSet(x, 5))
      /\ d(7) = 1 <=> ~(~(~(IsSet(x, 7) <=> IsSet(x, 3)) <=> ~(IsSet(x, 4) <=> IsSet(x, 5))) <=> IsSet(x, 6))
  BY <1>3
<1> QED  BY <1>1, <1>5, <1>7, <1>8, <1>9

THEOREM SBoxIsStandard ==
  ASSUME NEW a \in Octet
  PROVE  S[a] = sbox[a + 1]
<1>1. PICK x \in Octet : x = InverseTable[a + 1]
  BY DEF InverseTable, Octet
<1>2. S[a] = Affine(x)
  BY <1>1, InverseIsTable DEF S, Octet
<1>3. PICK v \in Octet :
           /\ Affine(x) = Xor(99, v)
           /\ IsSet(v, 0) <=> ~(~(~(IsSet(x, 0) <=> IsSet(x, 4)) <=> ~(IsSet(x, 5) <=> IsSet(x, 6))) <=> IsSet(x, 7))
           /\ IsSet(v, 1) <=> ~(~(~(IsSet(x, 1) <=> IsSet(x, 5)) <=> ~(IsSet(x, 6) <=> IsSet(x, 7))) <=> IsSet(x, 0))
           /\ IsSet(v, 2) <=> ~(~(~(IsSet(x, 2) <=> IsSet(x, 6)) <=> ~(IsSet(x, 7) <=> IsSet(x, 0))) <=> IsSet(x, 1))
           /\ IsSet(v, 3) <=> ~(~(~(IsSet(x, 3) <=> IsSet(x, 7)) <=> ~(IsSet(x, 0) <=> IsSet(x, 1))) <=> IsSet(x, 2))
           /\ IsSet(v, 4) <=> ~(~(~(IsSet(x, 4) <=> IsSet(x, 0)) <=> ~(IsSet(x, 1) <=> IsSet(x, 2))) <=> IsSet(x, 3))
           /\ IsSet(v, 5) <=> ~(~(~(IsSet(x, 5) <=> IsSet(x, 1)) <=> ~(IsSet(x, 2) <=> IsSet(x, 3))) <=> IsSet(x, 4))
           /\ IsSet(v, 6) <=> ~(~(~(IsSet(x, 6) <=> IsSet(x, 2)) <=> ~(IsSet(x, 3) <=> IsSet(x, 4))) <=> IsSet(x, 5))
           /\ IsSet(v, 7) <=> ~(~(~(IsSet(x, 7) <=> IsSet(x, 3)) <=> ~(IsSet(x, 4) <=> IsSet(x, 5))) <=> IsSet(x, 6))
  BY AffineBits
<1>4. 99 \in Octet
  BY DEF Octet
<1>5. PICK s \in Octet : s = sbox[a + 1]
  BY SMTT(60) DEF sbox, Octet
<1>6. BitsOf(x) /\ BitsOf(s) /\ BitsOf(99)
  BY <1>4, BitsOfOctet
<1>7. /\ IsSet(s, 0) <=> ~IsSet(v, 0)
      /\ IsSet(s, 1) <=> ~IsSet(v, 1)
      /\ IsSet(s, 2) <=> IsSet(v, 2)
      /\ IsSet(s, 3) <=> IsSet(v, 3)
      /\ IsSet(s, 4) <=> IsSet(v, 4)
      /\ IsSet(s, 5) <=> ~IsSet(v, 5)
      /\ IsSet(s, 6) <=> ~IsSet(v, 6)
      /\ IsSet(s, 7) <=> IsSet(v, 7)
  <2>1. CASE a \in 0..31
    BY <1>1, <1>3, <1>5, <1>6, <2>1, SMTT(120) DEF BitsOf, InverseTable, sbox
  <2>2. CASE a \in 32..63
    BY <1>1, <1>3, <1>5, <1>6, <2>2, SMTT(120) DEF BitsOf, InverseTable, sbox
  <2>3. CASE a \in 64..95
    BY <1>1, <1>3, <1>5, <1>6, <2>3, SMTT(120) DEF BitsOf, InverseTable, sbox
  <2>4. CASE a \in 96..127
    BY <1>1, <1>3, <1>5, <1>6, <2>4, SMTT(120) DEF BitsOf, InverseTable, sbox
  <2>5. CASE a \in 128..159
    BY <1>1, <1>3, <1>5, <1>6, <2>5, SMTT(120) DEF BitsOf, InverseTable, sbox
  <2>6. CASE a \in 160..191
    BY <1>1, <1>3, <1>5, <1>6, <2>6, SMTT(120) DEF BitsOf, InverseTable, sbox
  <2>7. CASE a \in 192..223
    BY <1>1, <1>3, <1>5, <1>6, <2>7, SMTT(120) DEF BitsOf, InverseTable, sbox
  <2>8. CASE a \in 224..255
    BY <1>1, <1>3, <1>5, <1>6, <2>8, SMTT(120) DEF BitsOf, InverseTable, sbox
  <2> QED  BY <2>1, <2>2, <2>3, <2>4, <2>5, <2>6, <2>7, <2>8 DEF Octet
<1>8. /\ IsSet(99, 0) /\ IsSet(99, 1) /\ ~IsSet(99, 2) /\ ~IsSet(99, 3)
      /\ ~IsSet(99, 4) /\ IsSet(99, 5) /\ IsSet(99, 6) /\ ~IsSet(99, 7)
  BY <1>6 DEF BitsOf
<1>9. /\ Xor(99, v) \in Octet
      /\ \A k \in 0..7 : IsSet(Xor(99, v), k) <=> ~(IsSet(99, k) <=> IsSet(v, k))
  BY <1>4, XorOctet, XorBit1
<1>10. \A k \in 0..7 : IsSet(Xor(99, v), k) <=> IsSet(s, k)
  <2>1. \A k \in {0, 1, 2, 3, 4, 5, 6, 7} : IsSet(Xor(99, v), k) <=> ~(IsSet(99, k) <=> IsSet(v, k))
    BY <1>9
  <2> QED  BY <1>7, <1>8, <2>1
<1>11. Xor(99, v) = s
  BY <1>9, <1>10, SameBits, ZenonT(60) DEF Octet
<1> QED  BY <1>2, <1>3, <1>5, <1>11

-----------------------------------------------------------------------------
(* The round functions: of the code, of the standard, and undone.          *)

LEMMA XTimeZero == xtime(0) = 0
<1>1. 0 \in Octet
  BY DEF Octet
<1>2. xtime(0) = Xor(0, 0)
  BY DEF xtime
<1> QED  BY <1>1, <1>2, XorZero

LEMMA SmallBits ==
  /\ \A k \in 1..7 : ~IsSet(1, k)
  /\ \A k \in 2..7 : ~IsSet(2, k) /\ ~IsSet(3, k)
  /\ IsSet(1, 0) /\ ~IsSet(2, 0) /\ IsSet(2, 1) /\ IsSet(3, 0) /\ IsSet(3, 1)
<1>1. 1 \in Octet /\ 2 \in Octet /\ 3 \in Octet
  BY DEF Octet
<1>2. BitsOf(1) /\ BitsOf(2) /\ BitsOf(3)
  BY <1>1, BitsOfOctet
<1> QED  BY <1>2 DEF BitsOf

(* The factors of MixColumns.                                              *)
LEMMA ProductSmall ==
  ASSUME NEW a \in Octet
  PROVE  /\ Product(a, 1) = a
         /\ Product(a, 2) = xtime(a)
         /\ Product(a, 3) = Xor(xtime(a), a)
<1>1. /\ 0 \in Octet /\ 1 \in Octet /\ 2 \in Octet /\ 3 \in Octet
      /\ xtime(0) = 0 /\ Xor(0, 0) = 0 /\ Xor(0, a) = a
  <2>1. 0 \in Octet /\ 1 \in Octet /\ 2 \in Octet /\ 3 \in Octet
    BY DEF Octet
  <2> QED  BY <2>1, XTimeZero, XorZero
<1>2. /\ xtime(a) \in Octet /\ Xor(xtime(a), 0) = xtime(a)
  BY XTimeLinear, XorZero
<1>3. ASSUME NEW b \in {1, 2, 3}, NEW p \in [0..8 -> Octet], p[0] = 0,
             \A m \in 0..7 : p[m + 1] = Xor(xtime(p[m]), IF IsSet(b, 7 - m) THEN a ELSE 0)
      PROVE  p[6] = 0 /\ p[7] = Xor(0, IF IsSet(b, 1) THEN a ELSE 0)
             /\ p[8] = Xor(xtime(p[7]), IF IsSet(b, 0) THEN a ELSE 0)
  <2>1. \A k \in 2..7 : ~IsSet(b, k)
    BY SmallBits
  <2>2. \A m \in 0..5 : p[m] = 0 => p[m + 1] = 0
    <3> SUFFICES ASSUME NEW m \in 0..5, p[m] = 0 PROVE p[m + 1] = 0
      OBVIOUS
    <3>1. 7 - m \in 2..7 /\ m \in 0..7
      OBVIOUS
    <3> QED  BY <1>1, <1>3, <2>1, <3>1
  <2>3. p[6] = 0
    BY <1>3, <2>2
  <2>4. /\ p[6 + 1] = Xor(xtime(p[6]), IF IsSet(b, 7 - 6) THEN a ELSE 0)
        /\ p[7 + 1] = Xor(xtime(p[7]), IF IsSet(b, 7 - 7) THEN a ELSE 0)
    BY <1>3
  <2> QED  BY <1>1, <2>3, <2>4
<1>4. Product(a, 1) = a
  <2>1. PICK p \in [0..8 -> Octet] :
           /\ p[0] = 0 /\ p[8] = Product(a, 1)
           /\ \A m \in 0..7 : p[m + 1] = Xor(xtime(p[m]), IF IsSet(1, 7 - m) THEN a ELSE 0)
    BY <1>1, ProductSteps
  <2>2. /\ p[7] = Xor(0, IF IsSet(1, 1) THEN a ELSE 0)
        /\ p[8] = Xor(xtime(p[7]), IF IsSet(1, 0) THEN a ELSE 0)
    BY <1>3, <2>1
  <2> QED  BY <1>1, <2>1, <2>2, SmallBits
<1>5. Product(a, 2) = xtime(a)
  <2>1. PICK p \in [0..8 -> Octet] :
           /\ p[0] = 0 /\ p[8] = Product(a, 2)
           /\ \A m \in 0..7 : p[m + 1] = Xor(xtime(p[m]), IF IsSet(2, 7 - m) THEN a ELSE 0)
    BY <1>1, ProductSteps
  <2>2. /\ p[7] = Xor(0, IF IsSet(2, 1) THEN a ELSE 0)
        /\ p[8] = Xor(xtime(p[7]), IF IsSet(2, 0) THEN a ELSE 0)
    BY <1>3, <2>1
  <2> QED  BY <1>1, <1>2, <2>1, <2>2, SmallBits
<1>6. Product(a, 3) = Xor(xtime(a), a)
  <2>1. PICK p \in [0..8 -> Octet] :
           /\ p[0] = 0 /\ p[8] = Product(a, 3)
           /\ \A m \in 0..7 : p[m + 1] = Xor(xtime(p[m]), IF IsSet(3, 7 - m) THEN a ELSE 0)
    BY <1>1, ProductSteps
  <2>2. /\ p[7] = Xor(0, IF IsSet(3, 1) THEN a ELSE 0)
        /\ p[8] = Xor(xtime(p[7]), IF IsSet(3, 0) THEN a ELSE 0)
    BY <1>3, <2>1
  <2> QED  BY <1>1, <2>1, <2>2, SmallBits
<1> QED  BY <1>4, <1>5, <1>6

Column == [1..4 -> Octet]
Block == [1..4 -> Column]

(* Columns and blocks are tuples of four.                                  *)
LEMMA FourTuple ==
  ASSUME NEW T, NEW a \in T, NEW b \in T, NEW c \in T, NEW d \in T
  PROVE  << a, b, c, d >> \in [1..4 -> T]
OBVIOUS

LEMMA TupleOfFour ==
  ASSUME NEW T, NEW f \in [1..4 -> T]
  PROVE  f = << f[1], f[2], f[3], f[4] >>
OBVIOUS

(* A word or a block added twice is gone, and adding zeroes changes        *)
(* nothing.                                                                *)
LEMMA XorWordFacts ==
  ASSUME NEW w \in Column, NEW v \in Column
  PROVE  /\ XorWord(w, v) \in Column
         /\ XorWord(XorWord(w, v), v) = w
         /\ XorWord(w, ZeroWord) = w
<1>1. \A n \in 1..4 : w[n] \in Octet /\ v[n] \in Octet
  BY DEF Column
<1>2. \A n \in 1..4 : /\ Xor(w[n], v[n]) \in Octet
                      /\ Xor(Xor(w[n], v[n]), v[n]) = w[n]
                      /\ Xor(w[n], 0) = w[n]
  BY <1>1, XorOctet, XorTwice, XorZero
<1>3. XorWord(w, v) \in Column
  BY <1>2, FourTuple DEF XorWord, Column
<1>4. w = << w[1], w[2], w[3], w[4] >>
  BY TupleOfFour DEF Column
<1>5. XorWord(XorWord(w, v), v) = << w[1], w[2], w[3], w[4] >>
  BY <1>2 DEF XorWord
<1>6. XorWord(w, ZeroWord) = << w[1], w[2], w[3], w[4] >>
  BY <1>2 DEF XorWord, ZeroWord
<1> QED  BY <1>3, <1>4, <1>5, <1>6

LEMMA XorBlockFacts ==
  ASSUME NEW s \in Block, NEW t \in Block
  PROVE  /\ XorBlock(s, t) \in Block
         /\ XorBlock(XorBlock(s, t), t) = s
         /\ XorBlock(s, ZeroBlock) = s
<1>1. \A n \in 1..4 : s[n] \in Column /\ t[n] \in Column
  BY DEF Block
<1>2. \A n \in 1..4 : /\ XorWord(s[n], t[n]) \in Column
                      /\ XorWord(XorWord(s[n], t[n]), t[n]) = s[n]
                      /\ XorWord(s[n], ZeroWord) = s[n]
  BY <1>1, XorWordFacts
<1>3. XorBlock(s, t) \in Block
  BY <1>2, FourTuple DEF XorBlock, Block
<1>4. s = << s[1], s[2], s[3], s[4] >>
  BY TupleOfFour DEF Block
<1>5. XorBlock(XorBlock(s, t), t) = << s[1], s[2], s[3], s[4] >>
  BY <1>2 DEF XorBlock
<1>6. XorBlock(s, ZeroBlock) = << s[1], s[2], s[3], s[4] >>
  BY <1>2 DEF XorBlock, ZeroBlock
<1> QED  BY <1>3, <1>4, <1>5, <1>6

(* getSBoxInvert undoes getSBoxValue, and the S-box is the standard's.     *)
LEMMA TableFacts ==
  ASSUME NEW x \in Octet
  PROVE  /\ getSBoxValue(x) \in Octet /\ getSBoxInvert(x) \in Octet
         /\ getSBoxInvert(getSBoxValue(x)) = x
         /\ S[x] = getSBoxValue(x)
<1>1. \A y \in 1..256 : sbox[y] \in 0..255 /\ rsbox[y] \in 0..255
  BY SMTT(60) DEF sbox, rsbox
<1>2. \A y \in 0..255 : rsbox[sbox[y + 1] + 1] = y
  BY DEF sbox, rsbox
<1>3. x + 1 \in 1..256 /\ x \in 0..255
  BY DEF Octet
<1>4. getSBoxValue(x) \in Octet /\ getSBoxInvert(x) \in Octet
  BY <1>1, <1>3 DEF Octet, getSBoxValue, getSBoxInvert
<1>5. getSBoxInvert(getSBoxValue(x)) = x
  BY <1>2, <1>3, SMTT(60) DEF getSBoxValue, getSBoxInvert
<1>6. S[x] = getSBoxValue(x)
  BY SBoxIsStandard DEF getSBoxValue
<1> QED  BY <1>4, <1>5, <1>6

(* SubBytes of the code is undone by InvSubBytes, and is the standard's.   *)
LEMMA SubWordFacts ==
  ASSUME NEW w \in Column
  PROVE  /\ SubWord(w) \in Column /\ InvSubWord(w) \in Column
         /\ InvSubWord(SubWord(w)) = w
         /\ SubstWord(w) = SubWord(w)
<1>1. \A n \in 1..4 : w[n] \in Octet
  BY DEF Column
<1>2. \A n \in 1..4 : /\ getSBoxValue(w[n]) \in Octet /\ getSBoxInvert(w[n]) \in Octet
                      /\ getSBoxInvert(getSBoxValue(w[n])) = w[n]
                      /\ S[w[n]] = getSBoxValue(w[n])
  BY <1>1, TableFacts
<1>3. SubWord(w) \in Column /\ InvSubWord(w) \in Column
  BY <1>2, FourTuple DEF SubWord, InvSubWord, Column
<1>4. w = << w[1], w[2], w[3], w[4] >>
  BY TupleOfFour DEF Column
<1>5. InvSubWord(SubWord(w)) = << w[1], w[2], w[3], w[4] >>
  BY <1>2 DEF SubWord, InvSubWord
<1>6. SubstWord(w) = SubWord(w)
  BY <1>2 DEF SubWord, SubstWord
<1> QED  BY <1>3, <1>4, <1>5, <1>6

LEMMA SubBytesFacts ==
  ASSUME NEW s \in Block
  PROVE  /\ SubBytes(s) \in Block /\ InvSubBytes(s) \in Block
         /\ InvSubBytes(SubBytes(s)) = s
         /\ Substituted(s) = SubBytes(s)
<1>1. \A n \in 1..4 : s[n] \in Column
  BY DEF Block
<1>2. \A n \in 1..4 : /\ SubWord(s[n]) \in Column /\ InvSubWord(s[n]) \in Column
                      /\ InvSubWord(SubWord(s[n])) = s[n]
                      /\ SubstWord(s[n]) = SubWord(s[n])
  BY <1>1, SubWordFacts
<1>3. SubBytes(s) \in Block /\ InvSubBytes(s) \in Block
  BY <1>2, FourTuple DEF SubBytes, InvSubBytes, Block
<1>4. s = << s[1], s[2], s[3], s[4] >>
  BY TupleOfFour DEF Block
<1>5. InvSubBytes(SubBytes(s)) = << s[1], s[2], s[3], s[4] >>
  BY <1>2 DEF SubBytes, InvSubBytes
<1>6. Substituted(s) = SubBytes(s)
  BY <1>2 DEF SubBytes, Substituted
<1> QED  BY <1>3, <1>4, <1>5, <1>6

(* So is ShiftRows.                                                        *)
LEMMA ShiftRowsFacts ==
  ASSUME NEW s \in Block
  PROVE  /\ ShiftRows(s) \in Block /\ InvShiftRows(s) \in Block
         /\ InvShiftRows(ShiftRows(s)) = s
         /\ Shifted(s) = ShiftRows(s)
<1>1. \A n, m \in 1..4 : s[n][m] \in Octet
  BY DEF Block, Column
<1>2. ShiftRows(s) \in Block
  <2>1. << s[1][1], s[2][2], s[3][3], s[4][4] >> \in [1..4 -> Octet]
    BY <1>1
  <2>2. << s[2][1], s[3][2], s[4][3], s[1][4] >> \in [1..4 -> Octet]
    BY <1>1
  <2>3. << s[3][1], s[4][2], s[1][3], s[2][4] >> \in [1..4 -> Octet]
    BY <1>1
  <2>4. << s[4][1], s[1][2], s[2][3], s[3][4] >> \in [1..4 -> Octet]
    BY <1>1
  <2>5. ShiftRows(s) \in [1..4 -> Column]
    BY <2>1, <2>2, <2>3, <2>4 DEF ShiftRows, Column
  <2> QED  BY <2>5 DEF Block
<1>3. InvShiftRows(s) \in Block
  <2>1. << s[1][1], s[4][2], s[3][3], s[2][4] >> \in [1..4 -> Octet]
    BY <1>1
  <2>2. << s[2][1], s[1][2], s[4][3], s[3][4] >> \in [1..4 -> Octet]
    BY <1>1
  <2>3. << s[3][1], s[2][2], s[1][3], s[4][4] >> \in [1..4 -> Octet]
    BY <1>1
  <2>4. << s[4][1], s[3][2], s[2][3], s[1][4] >> \in [1..4 -> Octet]
    BY <1>1
  <2>5. InvShiftRows(s) \in [1..4 -> Column]
    BY <2>1, <2>2, <2>3, <2>4 DEF InvShiftRows, Column
  <2> QED  BY <2>5 DEF Block
<1>4. \A n \in 1..4 : s[n] = << s[n][1], s[n][2], s[n][3], s[n][4] >>
  BY TupleOfFour DEF Block, Column
<1>5. s = << s[1], s[2], s[3], s[4] >>
  BY TupleOfFour DEF Block
<1>6. InvShiftRows(ShiftRows(s)) =
        << << s[1][1], s[1][2], s[1][3], s[1][4] >>, << s[2][1], s[2][2], s[2][3], s[2][4] >>,
           << s[3][1], s[3][2], s[3][3], s[3][4] >>, << s[4][1], s[4][2], s[4][3], s[4][4] >> >>
  BY DEF ShiftRows, InvShiftRows
<1>7. Shifted(s) = ShiftRows(s)
  BY DEF Shifted, ShiftRows
<1> QED  BY <1>2, <1>3, <1>4, <1>5, <1>6, <1>7

(* The rows of MixColumn, as the code has them and as the standard has     *)
(* them.                                                                   *)
LEMMA MixRow ==
  ASSUME NEW a \in Octet, NEW b \in Octet, NEW c \in Octet, NEW d \in Octet
  PROVE  LET t == Sum5(xtime(a), xtime(b), b, c, d)
             a2 == Product(a, 2)
             b3 == Product(b, 3)
         IN /\ t \in Octet
            /\ Xor(Xor(a2, b3), Xor(c, d)) = t
            /\ Xor(Xor(d, a2), Xor(b3, c)) = t
            /\ Xor(Xor(c, d), Xor(a2, b3)) = t
            /\ Xor(Xor(b3, c), Xor(d, a2)) = t
<1>1. PICK a2 \in Octet, b2 \in Octet : a2 = xtime(a) /\ b2 = xtime(b)
  BY XTimeLinear
<1>2. PICK b3 \in Octet : b3 = Xor(b2, b)
  BY XorOctet
<1>3. Product(a, 2) = a2 /\ Product(b, 3) = b3
  BY <1>1, <1>2, ProductSmall
<1>4. FiveOctets(a2, b2, b, c, d)
  BY DEF FiveOctets
<1>5. PICK t \in Octet : t = Sum5(a2, b2, b, c, d)
  BY <1>4, Sum5Facts
<1>6. /\ Xor(a2, b3) \in Octet /\ Xor(c, d) \in Octet /\ Xor(d, a2) \in Octet /\ Xor(b3, c) \in Octet
  BY XorOctet
<1> DEFINE V == {Xor(Xor(a2, b3), Xor(c, d)), Xor(Xor(d, a2), Xor(b3, c)),
                 Xor(Xor(c, d), Xor(a2, b3)), Xor(Xor(b3, c), Xor(d, a2))}
<1>7. V \subseteq Octet
  BY <1>6, XorOctet
<1>8. ASSUME NEW v \in V, NEW k \in 0..7
      PROVE  IsSet(v, k) <=> IsSet(t, k)
  <2>1. IsSet(t, k) <=> Odd5(a2, b2, b, c, d, k)
    BY <1>4, <1>5, Sum5Facts
  <2>2. /\ IsSet(Xor(a2, b3), k) <=> ~(IsSet(a2, k) <=> IsSet(b3, k))
        /\ IsSet(Xor(c, d), k) <=> ~(IsSet(c, k) <=> IsSet(d, k))
        /\ IsSet(Xor(d, a2), k) <=> ~(IsSet(d, k) <=> IsSet(a2, k))
        /\ IsSet(Xor(b3, c), k) <=> ~(IsSet(b3, k) <=> IsSet(c, k))
        /\ IsSet(b3, k) <=> ~(IsSet(b2, k) <=> IsSet(b, k))
    BY <1>2, XorBit1
  <2>3. /\ IsSet(Xor(Xor(a2, b3), Xor(c, d)), k) <=> ~(IsSet(Xor(a2, b3), k) <=> IsSet(Xor(c, d), k))
        /\ IsSet(Xor(Xor(d, a2), Xor(b3, c)), k) <=> ~(IsSet(Xor(d, a2), k) <=> IsSet(Xor(b3, c), k))
        /\ IsSet(Xor(Xor(c, d), Xor(a2, b3)), k) <=> ~(IsSet(Xor(c, d), k) <=> IsSet(Xor(a2, b3), k))
        /\ IsSet(Xor(Xor(b3, c), Xor(d, a2)), k) <=> ~(IsSet(Xor(b3, c), k) <=> IsSet(Xor(d, a2), k))
    BY <1>6, XorBit1
  <2> QED  BY <2>1, <2>2, <2>3 DEF Odd5
<1>9. \A v \in V : v = t
  BY <1>7, <1>8, SameBits, ZenonT(60) DEF Octet
<1> QED  BY <1>1, <1>3, <1>5, <1>9

(* What the Tmp and Tm of MixColumns compute for the four rows.            *)
LEMMA MixColumnRows ==
  ASSUME NEW c \in Column
  PROVE  MixColumn(c) = << Sum5(xtime(c[1]), xtime(c[2]), c[2], c[3], c[4]),
                           Sum5(xtime(c[2]), xtime(c[3]), c[3], c[4], c[1]),
                           Sum5(xtime(c[3]), xtime(c[4]), c[4], c[1], c[2]),
                           Sum5(xtime(c[4]), xtime(c[1]), c[1], c[2], c[3]) >>
<1>1. PICK c1 \in Octet, c2 \in Octet, c3 \in Octet, c4 \in Octet :
        c1 = c[1] /\ c2 = c[2] /\ c3 = c[3] /\ c4 = c[4]
  BY DEF Column
<1>2. PICK e \in Octet : e = Xor(Xor(c1, c2), Xor(c3, c4))
  BY XorOctet
<1> DEFINE mix(k) == Xor(c[k], Xor(xtime(Xor(c[k], c[(k % 4) + 1])), e))
<1>3. MixColumn(c) = << mix(1), mix(2), mix(3), mix(4) >>
  BY <1>1, <1>2 DEF MixColumn
<1>4. /\ mix(1) = Xor(c1, Xor(xtime(Xor(c1, c2)), e))
      /\ mix(2) = Xor(c2, Xor(xtime(Xor(c2, c3)), e))
      /\ mix(3) = Xor(c3, Xor(xtime(Xor(c3, c4)), e))
      /\ mix(4) = Xor(c4, Xor(xtime(Xor(c4, c1)), e))
  BY <1>1
<1> HIDE DEF mix
<1>5. mix(1) = Sum5(xtime(c1), xtime(c2), c2, c3, c4)
  BY <1>2, <1>4, MixValue DEF Sum5
<1>6. mix(2) = Sum5(xtime(c2), xtime(c3), c3, c4, c1)
  BY <1>2, <1>4, MixValue DEF Sum5
<1>7. mix(3) = Sum5(xtime(c3), xtime(c4), c4, c1, c2)
  BY <1>2, <1>4, MixValue DEF Sum5
<1>8. mix(4) = Sum5(xtime(c4), xtime(c1), c1, c2, c3)
  BY <1>2, <1>4, MixValue DEF Sum5
<1> QED  BY <1>1, <1>3, <1>5, <1>6, <1>7, <1>8

LEMMA MultiplyOctet ==
  ASSUME NEW x \in Octet, NEW y \in {9, 11, 13, 14}
  PROVE  Multiply(x, y) \in Octet
<1>1. PICK x2 \in Octet, x4 \in Octet, x8 \in Octet : x2 = xtime(x) /\ x4 = xtime(x2) /\ x8 = xtime(x4)
  BY XTimeLinear
<1>2. /\ Multiply(x, 9) = Xor(x, x8)
      /\ Multiply(x, 11) = Xor(Xor(x, x2), x8)
      /\ Multiply(x, 13) = Xor(x, Xor(x4, x8))
      /\ Multiply(x, 14) = Xor(x2, Xor(x4, x8))
  BY <1>1, MultiplyValues
<1> QED  BY <1>2, XorOctet

(* InvMixColumns undoes MixColumns, which is the standard's product by the *)
(* matrix.                                                                 *)
LEMMA MixColumnFacts ==
  ASSUME NEW c \in Column
  PROVE  /\ MixColumn(c) \in Column /\ InvMixColumn(c) \in Column
         /\ InvMixColumn(MixColumn(c)) = c
         /\ ColumnProduct(c) = MixColumn(c)
<1>1. PICK c1 \in Octet, c2 \in Octet, c3 \in Octet, c4 \in Octet :
        c1 = c[1] /\ c2 = c[2] /\ c3 = c[3] /\ c4 = c[4]
  BY DEF Column
<1>2. PICK t1 \in Octet, t2 \in Octet, t3 \in Octet, t4 \in Octet :
        /\ t1 = Sum5(xtime(c1), xtime(c2), c2, c3, c4)
        /\ t2 = Sum5(xtime(c2), xtime(c3), c3, c4, c1)
        /\ t3 = Sum5(xtime(c3), xtime(c4), c4, c1, c2)
        /\ t4 = Sum5(xtime(c4), xtime(c1), c1, c2, c3)
  BY MixRow
<1>3. MixColumn(c) = << t1, t2, t3, t4 >>
  BY <1>1, <1>2, MixColumnRows
<1>4. MixColumn(c) \in Column
  BY <1>3, FourTuple DEF Column
<1>5. InvMixColumn(c) \in Column
  <2> DEFINE p(m1, m2, m3, m4) == Xor(Xor(Multiply(c[1], m1), Multiply(c[2], m2)),
                                      Xor(Multiply(c[3], m3), Multiply(c[4], m4)))
  <2>1. ASSUME NEW m1 \in {9, 11, 13, 14}, NEW m2 \in {9, 11, 13, 14},
               NEW m3 \in {9, 11, 13, 14}, NEW m4 \in {9, 11, 13, 14}
        PROVE  p(m1, m2, m3, m4) \in Octet
    BY <1>1, MultiplyOctet, XorOctet
  <2>2. InvMixColumn(c) = << p(14, 11, 13, 9), p(9, 14, 11, 13), p(13, 9, 14, 11), p(11, 13, 9, 14) >>
    BY DEF InvMixColumn
  <2> HIDE DEF p
  <2>3. p(14, 11, 13, 9) \in Octet /\ p(9, 14, 11, 13) \in Octet /\ p(13, 9, 14, 11) \in Octet /\ p(11, 13, 9, 14) \in Octet
    BY <2>1
  <2> QED  BY <2>2, <2>3, FourTuple DEF Column
<1>6. InvMixColumn(MixColumn(c)) = << c1, c2, c3, c4 >>
  <2> DEFINE p(m1, m2, m3, m4) == Xor(Xor(Multiply(t1, m1), Multiply(t2, m2)),
                                      Xor(Multiply(t3, m3), Multiply(t4, m4)))
  <2>1. InvMixColumn(<< t1, t2, t3, t4 >>) = << p(14, 11, 13, 9), p(9, 14, 11, 13), p(13, 9, 14, 11), p(11, 13, 9, 14) >>
    BY DEF InvMixColumn
  <2>2. p(14, 11, 13, 9) = c1
    BY <1>2, InverseRow
  <2>3. p(9, 14, 11, 13) = c2
    BY <1>2, InverseRow
  <2>4. p(13, 9, 14, 11) = c3
    BY <1>2, InverseRow
  <2>5. p(11, 13, 9, 14) = c4
    BY <1>2, InverseRow
  <2> HIDE DEF p
  <2> QED  BY <1>3, <2>1, <2>2, <2>3, <2>4, <2>5
<1>7. ColumnProduct(c) = << t1, t2, t3, t4 >>
  <2> DEFINE p(m1, m2, m3, m4) == Xor(Xor(Product(c1, m1), Product(c2, m2)),
                                      Xor(Product(c3, m3), Product(c4, m4)))
  <2>1. ColumnProduct(c) = << p(2, 3, 1, 1), p(1, 2, 3, 1), p(1, 1, 2, 3), p(3, 1, 1, 2) >>
    BY <1>1 DEF ColumnProduct
  <2>2. Product(c1, 1) = c1 /\ Product(c2, 1) = c2 /\ Product(c3, 1) = c3 /\ Product(c4, 1) = c4
    BY ProductSmall
  <2>3. p(2, 3, 1, 1) = t1
    BY <1>2, <2>2, MixRow
  <2>4. p(1, 2, 3, 1) = t2
    BY <1>2, <2>2, MixRow
  <2>5. p(1, 1, 2, 3) = t3
    BY <1>2, <2>2, MixRow
  <2>6. p(3, 1, 1, 2) = t4
    BY <1>2, <2>2, MixRow
  <2> HIDE DEF p
  <2> QED  BY <2>1, <2>3, <2>4, <2>5, <2>6
<1>8. c = << c[1], c[2], c[3], c[4] >>
  BY TupleOfFour DEF Column
<1> QED  BY <1>1, <1>3, <1>4, <1>5, <1>6, <1>7, <1>8

LEMMA MixColumnsFacts ==
  ASSUME NEW s \in Block
  PROVE  /\ MixColumns(s) \in Block /\ InvMixColumns(s) \in Block
         /\ InvMixColumns(MixColumns(s)) = s
         /\ Mixed(s) = MixColumns(s)
<1>1. \A n \in 1..4 : s[n] \in Column
  BY DEF Block
<1>2. \A n \in 1..4 : /\ MixColumn(s[n]) \in Column /\ InvMixColumn(s[n]) \in Column
                      /\ InvMixColumn(MixColumn(s[n])) = s[n]
                      /\ ColumnProduct(s[n]) = MixColumn(s[n])
  BY <1>1, MixColumnFacts
<1>3. MixColumns(s) \in Block /\ InvMixColumns(s) \in Block
  BY <1>2, FourTuple DEF MixColumns, InvMixColumns, Block
<1>4. s = << s[1], s[2], s[3], s[4] >>
  BY TupleOfFour DEF Block
<1>5. InvMixColumns(MixColumns(s)) = << s[1], s[2], s[3], s[4] >>
  BY <1>2 DEF MixColumns, InvMixColumns
<1>6. Mixed(s) = MixColumns(s)
  BY <1>2 DEF MixColumns, Mixed
<1> QED  BY <1>3, <1>4, <1>5, <1>6

-----------------------------------------------------------------------------
(* The key schedule.  Both are functions defined by recursion on the       *)
(* number of words: the function is shown to exist up to every length, by  *)
(* induction with the well-founded order of the naturals.                  *)

(* One more word, by the standard and by KeyExpansion.                     *)
StandardWord(w, n, nk) ==
  LET k == n - 1
      t == w[k]
      u == IF k % nk = 0
           THEN XorWord(SubstWord(<< t[2], t[3], t[4], t[1] >>),
                        << PowerOfTwo[k \div nk - 1], 0, 0, 0 >>)
           ELSE IF nk > 6 /\ k % nk = 4 THEN SubstWord(t) ELSE t
  IN Append(w, XorWord(w[n - nk], u))

LEMMA ScheduleIs ==
  ASSUME NEW key, NEW nk, NEW total
  PROVE  Schedule(key, nk, total) =
           (CHOOSE f : f = [n \in nk..total |-> IF n = nk THEN key ELSE StandardWord(f[n - 1], n, nk)])[total]
BY DEF Schedule, StandardWord

CodeWord(w, n) ==
  LET k == n - 1
      tempa == CASE k % Nk = 0 -> XorWord(SubWord(RotWord(w[k])), << Rcon[k \div Nk], 0, 0, 0 >>)
                 [] AES_type = 2 /\ k % Nk = 4 -> SubWord(w[k])
                 [] OTHER -> w[k]
  IN Append(w, XorWord(w[n - Nk], tempa))

LEMMA KeyExpansionIs ==
  ASSUME NEW key
  PROVE  KeyExpansion(key) =
           (CHOOSE f : f = [n \in Nk..4 * (Nr + 1) |->
                              IF n = Nk THEN SubSeq(key, 1, Nk) ELSE CodeWord(f[n - 1], n)])[4 * (Nr + 1)]
           \o SubSeq(RoundKey, 4 * (Nr + 1) + 1, 60)
BY DEF KeyExpansion, CodeWord

(* Every set of naturals has a least element, by the well-founded order.   *)
Less == {ss \in Nat \X Nat : ss[1] < ss[2]}

LEMMA LeastNat == ASSUME NEW T \in SUBSET Nat, T # {}
                  PROVE  \E m \in T : \A n \in T : m <= n
<1>1. IsWellFoundedOn(Less, Nat)
  BY NatLessThanWellFounded DEF OpToRel, Less
<1>2. PICK m \in T : \A n \in T : ~(<<n, m>> \in Less)
  BY <1>1, WFMin
<1>3. ASSUME NEW n \in T PROVE m <= n
  <2>1. m \in Nat /\ n \in Nat
    OBVIOUS
  <2>2. n < m => <<n, m>> \in Less
    BY <2>1 DEF Less
  <2> QED BY <2>1, <2>2, <1>2
<1> QED BY <1>3

(* Induction from lo on, for a set of good numbers.                        *)
LEMMA FromOn ==
  ASSUME NEW lo \in Nat, NEW Good, lo \in Good,
         \A n \in Nat : n >= lo /\ n \in Good => n + 1 \in Good
  PROVE  \A n \in Nat : n >= lo => n \in Good
<1> DEFINE Bad == {n \in Nat : n >= lo /\ n \notin Good}
<1> SUFFICES ASSUME Bad # {} PROVE FALSE
  OBVIOUS
<1>1. PICK m \in Bad : \A n \in Bad : m <= n
  BY LeastNat
<1>2. m \in Nat /\ m > lo /\ m \notin Good
  BY <1>1
<1>3. m - 1 \in Nat /\ m - 1 >= lo /\ m - 1 \notin Bad
  BY <1>1, <1>2
<1>4. m - 1 \in Good /\ (m - 1) + 1 = m
  BY <1>2, <1>3
<1>5. (m - 1) + 1 \in Good
  BY <1>3, <1>4
<1> QED  BY <1>2, <1>4, <1>5

(* Rcon holds the powers of two of the field.                              *)
LEMMA PowersAreRcon == \A n \in 0..9 : PowerOfTwo[n] = Rcon[n + 1] /\ Rcon[n + 1] \in Octet
<1> DEFINE P(f) == f = [n \in 0..9 |-> IF n = 0 THEN 1 ELSE Doubled(f[n - 1])]
           R == << 1, 2, 4, 8, 16, 32, 64, 128, 27, 54 >>
           g == [n \in 0..9 |-> R[n + 1]]
<1>1. /\ Doubled(1) = 2 /\ Doubled(2) = 4 /\ Doubled(4) = 8 /\ Doubled(8) = 16 /\ Doubled(16) = 32
      /\ Doubled(32) = 64 /\ Doubled(64) = 128 /\ Doubled(128) = 27 /\ Doubled(27) = 54
  <2>1. 27 \in Octet
    BY DEF Octet
  <2>2. Xor(0, 27) = 27
    BY <2>1, XorZero
  <2> QED  BY <2>2 DEF Doubled
<1>2. /\ g[0] = 1 /\ g[1] = 2 /\ g[2] = 4 /\ g[3] = 8 /\ g[4] = 16 /\ g[5] = 32
      /\ g[6] = 64 /\ g[7] = 128 /\ g[8] = 27 /\ g[9] = 54
  OBVIOUS
<1>3. P(g)
  <2>1. \A n \in 0..9 : g[n] = IF n = 0 THEN 1 ELSE Doubled(g[n - 1])
    <3> SUFFICES ASSUME NEW n \in {0, 1, 2, 3, 4, 5, 6, 7, 8, 9}
                 PROVE g[n] = IF n = 0 THEN 1 ELSE Doubled(g[n - 1])
      BY SMT
    <3> HIDE DEF g
    <3>1. CASE n = 0  BY <3>1, <1>2
    <3>2. CASE n # 0
      <4>1. n - 1 \in {0, 1, 2, 3, 4, 5, 6, 7, 8} /\ n = (n - 1) + 1
        BY <3>2
      <4> QED  BY <3>2, <4>1, <1>1, <1>2
    <3> QED  BY <3>1, <3>2
  <2> QED  BY <2>1, Zenon
<1>4. PowerOfTwo = CHOOSE f : P(f)
  BY DEF PowerOfTwo
<1>5. P(PowerOfTwo)
  <2> HIDE DEF P
  <2> QED  BY <1>3, <1>4, Zenon
<1>6. \A n \in 0..9 : PowerOfTwo[n] = IF n = 0 THEN 1 ELSE Doubled(PowerOfTwo[n - 1])
  <2>1. \A f : P(f) => \A n \in 0..9 : f[n] = IF n = 0 THEN 1 ELSE Doubled(f[n - 1])
    BY Zenon
  <2> HIDE DEF P
  <2> QED  BY <1>5, <2>1, Zenon
<1>7. \A n \in 1..9 : PowerOfTwo[n] = Doubled(PowerOfTwo[n - 1])
  BY <1>6
<1>8. PowerOfTwo[0] = 1
  BY <1>6
<1>9. /\ PowerOfTwo[1] = Doubled(PowerOfTwo[0]) /\ PowerOfTwo[2] = Doubled(PowerOfTwo[1])
      /\ PowerOfTwo[3] = Doubled(PowerOfTwo[2]) /\ PowerOfTwo[4] = Doubled(PowerOfTwo[3])
      /\ PowerOfTwo[5] = Doubled(PowerOfTwo[4]) /\ PowerOfTwo[6] = Doubled(PowerOfTwo[5])
      /\ PowerOfTwo[7] = Doubled(PowerOfTwo[6]) /\ PowerOfTwo[8] = Doubled(PowerOfTwo[7])
      /\ PowerOfTwo[9] = Doubled(PowerOfTwo[8])
  <2>1. /\ PowerOfTwo[1] = Doubled(PowerOfTwo[1 - 1]) /\ PowerOfTwo[2] = Doubled(PowerOfTwo[2 - 1])
        /\ PowerOfTwo[3] = Doubled(PowerOfTwo[3 - 1]) /\ PowerOfTwo[4] = Doubled(PowerOfTwo[4 - 1])
        /\ PowerOfTwo[5] = Doubled(PowerOfTwo[5 - 1]) /\ PowerOfTwo[6] = Doubled(PowerOfTwo[6 - 1])
        /\ PowerOfTwo[7] = Doubled(PowerOfTwo[7 - 1]) /\ PowerOfTwo[8] = Doubled(PowerOfTwo[8 - 1])
        /\ PowerOfTwo[9] = Doubled(PowerOfTwo[9 - 1])
    <3> QED BY <1>7
  <2> QED  BY <2>1
<1>10. \A n \in {0, 1, 2, 3, 4, 5, 6, 7, 8, 9} : PowerOfTwo[n] = R[n + 1] /\ R[n + 1] \in 0..255
  BY <1>1, <1>8, <1>9
<1> QED  BY <1>10 DEF Rcon, Octet

(* Sequences as functions, which is how the schedules are typed.           *)
LEMMA AppendTo ==
  ASSUME NEW T, NEW n \in Nat, n > 0, NEW w \in [1..n - 1 -> T], NEW x \in T
  PROVE  /\ Append(w, x) \in [1..n -> T]
         /\ \A k \in 1..n : Append(w, x)[k] = IF k = n THEN x ELSE w[k]
<1>1. w \in Seq(T) /\ Len(w) = n - 1
  OBVIOUS
<1>2. Append(w, x) \in Seq(T) /\ Len(Append(w, x)) = n
  BY <1>1
<1>3. Append(w, x) \in [1..n -> T]
  <2>1. \A s : s \in Seq(T) /\ Len(s) = n => s \in [1..n -> T]
    OBVIOUS
  <2> QED  BY <1>2, <2>1
<1>4. \A k \in 1..n : Append(w, x)[k] = IF k = n THEN x ELSE w[k]
  BY <1>1
<1> QED  BY <1>3, <1>4

(* A word more makes a sequence one longer.                                *)
LEMMA StandardWordTyped ==
  ASSUME NEW nk \in {4, 6, 8}, NEW n \in (nk + 1)..4 * (nk + 7), NEW w \in [1..n - 1 -> Column]
  PROVE  StandardWord(w, n, nk) \in [1..n -> Column]
<1> DEFINE k == n - 1
           t == w[k]
           u1 == XorWord(SubstWord(<< t[2], t[3], t[4], t[1] >>), << PowerOfTwo[k \div nk - 1], 0, 0, 0 >>)
           u == IF k % nk = 0 THEN u1
                ELSE IF nk > 6 /\ k % nk = 4 THEN SubstWord(t) ELSE t
<1>1. n \in Nat /\ n > 0 /\ k \in 1..n - 1 /\ n - nk \in 1..n - 1
  OBVIOUS
<1>2. t \in Column /\ w[n - nk] \in Column
  BY <1>1
<1>3. t[1] \in Octet /\ t[2] \in Octet /\ t[3] \in Octet /\ t[4] \in Octet
  BY <1>2 DEF Column
<1>4. SubstWord(t) \in Column
  BY <1>2, SubWordFacts
<1>5. << t[2], t[3], t[4], t[1] >> \in Column
  BY <1>3, FourTuple DEF Column
<1>6. SubstWord(<< t[2], t[3], t[4], t[1] >>) \in Column
  BY <1>5, SubWordFacts
<1>7. k \div nk - 1 \in 0..9
  <2>1. CASE nk = 4  BY <2>1
  <2>2. CASE nk = 6  BY <2>2
  <2>3. CASE nk = 8  BY <2>3
  <2> QED  BY <2>1, <2>2, <2>3
<1>8. PowerOfTwo[k \div nk - 1] \in Octet /\ 0 \in Octet
  <2>1. 0 \in Octet
    BY DEF Octet
  <2>2. \A q \in 0..9 : PowerOfTwo[q] \in Octet
    BY PowersAreRcon
  <2> QED  BY <1>7, <2>1, <2>2
<1>9. << PowerOfTwo[k \div nk - 1], 0, 0, 0 >> \in Column
  BY <1>8, FourTuple DEF Column
<1>10. u1 \in Column
  BY <1>6, <1>9, XorWordFacts
<1>11. u \in Column
  BY <1>2, <1>4, <1>10
<1>12. XorWord(w[n - nk], u) \in Column
  BY <1>2, <1>11, XorWordFacts
<1>13. StandardWord(w, n, nk) = Append(w, XorWord(w[n - nk], u))
  BY DEF StandardWord
<1> HIDE DEF u
<1> QED  BY <1>1, <1>12, <1>13, AppendTo

(* The words up to h, one length after the other.                          *)
WordsUpTo(f, key, nk, h) ==
  /\ f \in [nk..h -> UNION {[1..n -> Column] : n \in nk..h}]
  /\ \A n \in nk..h : f[n] \in [1..n -> Column]
  /\ \A n \in nk..h : f[n] = IF n = nk THEN key ELSE StandardWord(f[n - 1], n, nk)

(* They exist for every length, by FromOn.                                 *)
LEMMA WordsExist ==
  ASSUME NEW nk \in {4, 6, 8}, NEW key \in [1..nk -> Column]
  PROVE  \A h \in Nat : h >= nk /\ h <= 4 * (nk + 7) => \E f : WordsUpTo(f, key, nk, h)
<1> DEFINE Good == {h \in Nat : h <= 4 * (nk + 7) => \E f : WordsUpTo(f, key, nk, h)}
<1>1. nk \in Good
  <2>1. nk..nk = {nk} /\ nk \in Nat
    OBVIOUS
  <2>2. WordsUpTo([n \in nk..nk |-> key], key, nk, nk)
    <3>1. \A n \in nk..nk : [m \in nk..nk |-> key][n] = key /\ n = nk
      BY <2>1
    <3> QED  BY <2>1, <3>1 DEF WordsUpTo
  <2> QED  BY <2>1, <2>2
<1>2. ASSUME NEW h \in Nat, h >= nk, h \in Good
      PROVE  h + 1 \in Good
  <2> SUFFICES ASSUME h + 1 <= 4 * (nk + 7)
               PROVE  \E f : WordsUpTo(f, key, nk, h + 1)
    OBVIOUS
  <2>1. PICK f : WordsUpTo(f, key, nk, h)
    BY <1>2
  <2> DEFINE x == StandardWord(f[h], h + 1, nk)
             g == [n \in nk..h + 1 |-> IF n = h + 1 THEN x ELSE f[n]]
  <2>2. h \in nk..h /\ (h + 1) - 1 = h /\ h + 1 \in (nk + 1)..4 * (nk + 7)
    BY <1>2
  <2>3. f[h] \in [1..(h + 1) - 1 -> Column]
    BY <2>1, <2>2 DEF WordsUpTo
  <2>4. x \in [1..h + 1 -> Column]
    BY <2>2, <2>3, StandardWordTyped
  <2>5. \A n \in nk..h : g[n] = f[n] /\ n \in nk..h + 1
    BY <1>2
  <2>6. g[h + 1] = x /\ h + 1 \in nk..h + 1
    BY <1>2
  <2>7. \A n \in nk..h + 1 : n \in nk..h \/ n = h + 1
    BY <1>2
  <2> HIDE DEF g, x
  <2>8. \A n \in nk..h + 1 : g[n] \in [1..n -> Column]
    BY <2>1, <2>4, <2>5, <2>6, <2>7 DEF WordsUpTo
  <2>9. \A n \in nk..h + 1 : g[n] = IF n = nk THEN key ELSE StandardWord(g[n - 1], n, nk)
    <3> SUFFICES ASSUME NEW n \in nk..h + 1
                 PROVE  g[n] = IF n = nk THEN key ELSE StandardWord(g[n - 1], n, nk)
      OBVIOUS
    <3>1. CASE n = h + 1
      <4>1. g[n - 1] = f[h] /\ n # nk
        BY <3>1, <2>5, <2>2, <1>2
      <4> QED  BY <3>1, <4>1, <2>6 DEF x
    <3>2. CASE n \in nk..h
      <4>1. n # nk => n - 1 \in nk..h
        BY <3>2, <1>2
      <4>2. n # nk => g[n - 1] = f[n - 1]
        BY <4>1, <2>5
      <4>3. g[n] = f[n]
        BY <3>2, <2>5
      <4> QED  BY <3>2, <4>2, <4>3, <2>1 DEF WordsUpTo
    <3> QED  BY <3>1, <3>2, <2>7
  <2>10. g \in [nk..h + 1 -> UNION {[1..n -> Column] : n \in nk..h + 1}]
    <3>1. \A n \in nk..h + 1 : g[n] \in UNION {[1..m -> Column] : m \in nk..h + 1}
      BY <2>8
    <3>2. DOMAIN g = nk..h + 1 /\ g = [n \in nk..h + 1 |-> g[n]]
      BY DEF g
    <3> QED  BY <3>1, <3>2
  <2> QED  BY <2>8, <2>9, <2>10 DEF WordsUpTo
<1> HIDE DEF Good
<1>3. \A n \in Nat : n >= nk => n \in Good
  <2>1. nk \in Nat
    OBVIOUS
  <2> QED  BY <1>1, <1>2, <2>1, FromOn
<1> QED  BY <1>3 DEF Good

(* And the schedule is the last of them.                                   *)
LEMMA ScheduleWords ==
  ASSUME NEW nk \in {4, 6, 8}, NEW key, NEW f, WordsUpTo(f, key, nk, 4 * (nk + 7))
  PROVE  Schedule(key, nk, 4 * (nk + 7)) = f[4 * (nk + 7)]
<1> DEFINE total == 4 * (nk + 7)
           P(g) == g = [n \in nk..total |-> IF n = nk THEN key ELSE StandardWord(g[n - 1], n, nk)]
<1>1. P(f)
  BY DEF WordsUpTo
<1>2. ASSUME NEW g, P(g)
      PROVE  g[total] = f[total]
  <2> DEFINE Good == {n \in Nat : n <= total => g[n] = f[n]}
  <2>1. \A n \in nk..total : g[n] = IF n = nk THEN key ELSE StandardWord(g[n - 1], n, nk)
    BY <1>2, Zenon
  <2>2. \A n \in nk..total : f[n] = IF n = nk THEN key ELSE StandardWord(f[n - 1], n, nk)
    BY DEF WordsUpTo
  <2>3. nk \in Nat /\ total \in Nat /\ nk <= total
    OBVIOUS
  <2> HIDE DEF P, total
  <2>4. nk \in Good
    BY <2>1, <2>2, <2>3
  <2>5. ASSUME NEW n \in Nat, n >= nk, n \in Good, n + 1 <= total
        PROVE  g[n + 1] = f[n + 1]
    <3>1. n + 1 \in nk..total /\ n + 1 # nk /\ (n + 1) - 1 = n /\ g[n] = f[n]
      BY <2>5, <2>3
    <3>2. /\ g[n + 1] = StandardWord(g[(n + 1) - 1], n + 1, nk)
          /\ f[n + 1] = StandardWord(f[(n + 1) - 1], n + 1, nk)
      BY <3>1, <2>1, <2>2, Zenon
    <3> QED  BY <3>1, <3>2
  <2>6. \A n \in Nat : n >= nk /\ n \in Good => n + 1 \in Good
    BY <2>5
  <2> HIDE DEF Good
  <2>7. \A n \in Nat : n >= nk => n \in Good
    BY <2>3, <2>4, <2>6, FromOn
  <2> QED  BY <2>3, <2>7 DEF Good
<1>3. Schedule(key, nk, total) = (CHOOSE g : P(g))[total]
  BY ScheduleIs
<1> HIDE DEF P, total
<1>4. P(CHOOSE g : P(g))
  BY <1>1, Zenon
<1> QED  BY <1>2, <1>3, <1>4 DEF total

(* The numbers of words and rounds of the three types.                     *)
LEMMA NkFacts ==
  ASSUME AES_type \in AES_TYPE
  PROVE  /\ Nk \in {4, 6, 8} /\ Nr = Nk + 6 /\ 4 * (Nr + 1) = 4 * (Nk + 7)
         /\ Nr \in {10, 12, 14} /\ (AES_type = 2 <=> Nk > 6)
BY DEF Nk, Nr, AES_TYPE

(* KeyExpansion adds the word that the standard adds.                      *)
LEMMA CodeWordIsStandard ==
  ASSUME AES_type \in AES_TYPE,
         NEW n \in (Nk + 1)..4 * (Nk + 7), NEW w \in [1..n - 1 -> Column]
  PROVE  CodeWord(w, n) = StandardWord(w, n, Nk)
<1> DEFINE k == n - 1
           t == w[k]
<1>1. PICK nk \in {4, 6, 8} : nk = Nk /\ (AES_type = 2 <=> nk > 6)
  BY NkFacts
<1>2. n \in (nk + 1)..4 * (nk + 7)
  BY <1>1
<1>3. k \in 1..n - 1 /\ n \in Nat
  BY <1>2
<1>4. t \in Column
  BY <1>3
<1>5. t[1] \in Octet /\ t[2] \in Octet /\ t[3] \in Octet /\ t[4] \in Octet
  BY <1>4 DEF Column
<1>6. SubstWord(t) = SubWord(t)
  BY <1>4, SubWordFacts
<1>7. << t[2], t[3], t[4], t[1] >> \in Column
  BY <1>5, FourTuple DEF Column
<1>8. SubstWord(<< t[2], t[3], t[4], t[1] >>) = SubWord(RotWord(t))
  BY <1>7, SubWordFacts DEF RotWord
<1>9. k % nk = 0 => PowerOfTwo[k \div nk - 1] = Rcon[k \div nk]
  <2>1. k \div nk - 1 \in 0..9 /\ (k \div nk - 1) + 1 = k \div nk
    <3>1. CASE nk = 4  BY <3>1, <1>2
    <3>2. CASE nk = 6  BY <3>2, <1>2
    <3>3. CASE nk = 8  BY <3>3, <1>2
    <3> QED  BY <3>1, <3>2, <3>3
  <2>2. \A q \in 0..9 : PowerOfTwo[q] = Rcon[q + 1]
    BY PowersAreRcon
  <2> QED  BY <2>1, <2>2
<1> DEFINE tempa == CASE k % nk = 0 -> XorWord(SubWord(RotWord(t)), << Rcon[k \div nk], 0, 0, 0 >>)
                      [] AES_type = 2 /\ k % nk = 4 -> SubWord(t)
                      [] OTHER -> t
           u == IF k % nk = 0
                THEN XorWord(SubstWord(<< t[2], t[3], t[4], t[1] >>), << PowerOfTwo[k \div nk - 1], 0, 0, 0 >>)
                ELSE IF nk > 6 /\ k % nk = 4 THEN SubstWord(t) ELSE t
<1>10. CodeWord(w, n) = Append(w, XorWord(w[n - nk], tempa))
  BY <1>1 DEF CodeWord
<1>11. StandardWord(w, n, nk) = Append(w, XorWord(w[n - nk], u))
  BY DEF StandardWord
<1>12. ~(k % nk = 0 /\ k % nk = 4)
  BY <1>3
<1>13. tempa = u
  <2> HIDE DEF k, t
  <2>1. CASE k % nk = 0
    BY <2>1, <1>8, <1>9, <1>12, Zenon
  <2>2. CASE k % nk # 0 /\ nk > 6 /\ k % nk = 4
    BY <2>2, <1>1, <1>6, Zenon
  <2>3. CASE k % nk # 0 /\ ~(nk > 6 /\ k % nk = 4)
    BY <2>3, <1>1, Zenon
  <2> QED  BY <2>1, <2>2, <2>3
<1> HIDE DEF tempa, u
<1> QED  BY <1>1, <1>10, <1>11, <1>13

LEMMA SeqIsFunction ==
  ASSUME NEW T, NEW n \in Nat, NEW w \in Seq(T), Len(w) = n
  PROVE  w \in [1..n -> T]
OBVIOUS

LEMMA FunctionIsSeq ==
  ASSUME NEW T, NEW n \in Nat, NEW w \in [1..n -> T]
  PROVE  w \in Seq(T) /\ Len(w) = n
OBVIOUS

LEMMA SubSeqOf ==
  ASSUME NEW T, NEW n \in Nat, NEW l \in Nat, NEW m \in Nat, l > 0, m <= n, l <= m + 1, NEW w \in [1..n -> T]
  PROVE  /\ SubSeq(w, l, m) \in [1..m - l + 1 -> T]
         /\ \A k \in 1..m - l + 1 : SubSeq(w, l, m)[k] = w[l + k - 1]
<1>1. w \in Seq(T) /\ Len(w) = n
  BY FunctionIsSeq
<1>2. /\ SubSeq(w, l, m) \in Seq(T) /\ Len(SubSeq(w, l, m)) = m - l + 1
      /\ \A k \in 1..m - l + 1 : SubSeq(w, l, m)[k] = w[l + k - 1]
  BY <1>1
<1>3. m - l + 1 \in Nat
  OBVIOUS
<1> QED  BY <1>2, <1>3, SeqIsFunction

LEMMA ConcatOf ==
  ASSUME NEW T, NEW n \in Nat, NEW m \in Nat, NEW w \in Seq(T), NEW v \in Seq(T), Len(w) = n, Len(v) = m
  PROVE  w \o v \in [1..n + m -> T]
<1>1. w \o v \in Seq(T) /\ Len(w \o v) = n + m
  OBVIOUS
<1>2. n + m \in Nat
  OBVIOUS
<1> QED  BY <1>1, <1>2, SeqIsFunction

(* The words of the type, before what RoundKey held from a longer key.     *)
WordsOf(w, t) == t \in Nat /\ w \in [1..t -> Column]
SameWords(e, w, t) == \A k \in 1..t : e[k] = w[k]

LEMMA ConcatWords ==
  ASSUME NEW w, NEW v, NEW t, NEW e, e = w \o v, WordsOf(w, t), WordsOf(v, 60 - t)
  PROVE  WordsOf(e, 60) /\ SameWords(e, w, t)
<1>1. t \in Nat /\ 60 - t \in Nat /\ t <= 60
  BY DEF WordsOf
<1>2. w \in Seq(Column) /\ Len(w) = t
  BY FunctionIsSeq DEF WordsOf
<1>3. v \in Seq(Column) /\ Len(v) = 60 - t
  BY <1>1, FunctionIsSeq DEF WordsOf
<1>4. t + (60 - t) = 60
  BY <1>1
<1>5. e \in [1..t + (60 - t) -> Column]
  BY <1>1, <1>2, <1>3, ConcatOf
<1>6. \A k \in 1..t : (w \o v)[k] = w[k]
  BY <1>1, <1>2, <1>3
<1> QED  BY <1>1, <1>4, <1>5, <1>6 DEF WordsOf, SameWords

(* KeyExpansion fills the words the type has with those of the standard.   *)
THEOREM KeyExpansionFacts ==
  ASSUME AES_type \in AES_TYPE, NEW key \in [1..8 -> Column], RoundKey \in [1..60 -> Column]
  PROVE  /\ KeyExpansion(key) \in [1..60 -> Column]
         /\ Schedule(SubSeq(key, 1, Nk), Nk, 4 * (Nk + 7)) \in [1..4 * (Nk + 7) -> Column]
         /\ \A k \in 1..4 * (Nk + 7) :
              KeyExpansion(key)[k] = Schedule(SubSeq(key, 1, Nk), Nk, 4 * (Nk + 7))[k]
<1>1. PICK nk \in {4, 6, 8} : nk = Nk /\ 4 * (Nr + 1) = 4 * (nk + 7)
  BY NkFacts
<1> DEFINE total == 4 * (nk + 7)
           first == SubSeq(key, 1, nk)
           Q(g) == g = [n \in nk..total |-> IF n = nk THEN first ELSE CodeWord(g[n - 1], n)]
           c == CHOOSE g : Q(g)
<1>2. nk \in Nat /\ total \in Nat /\ nk <= total /\ total <= 60 /\ nk <= 8
  OBVIOUS
<1>3. first \in [1..nk -> Column]
  <2>1. \A n, l, m \in Nat : \A w \in [1..n -> Column] :
          l > 0 /\ m <= n /\ l <= m + 1 => SubSeq(w, l, m) \in [1..m - l + 1 -> Column]
    BY SubSeqOf
  <2>2. 8 \in Nat /\ 1 \in Nat /\ 1 > 0 /\ nk <= 8 /\ 1 <= nk + 1 /\ nk - 1 + 1 = nk
    BY <1>2
  <2>3. SubSeq(key, 1, nk) \in [1..nk - 1 + 1 -> Column]
    BY <1>2, <2>1, <2>2
  <2> QED  BY <2>2, <2>3
<1> HIDE DEF first
<1>4. PICK f : WordsUpTo(f, first, nk, total)
  <2>1. \A h \in Nat : h >= nk /\ h <= 4 * (nk + 7) => \E f : WordsUpTo(f, first, nk, h)
    BY <1>3, WordsExist
  <2>2. total \in Nat /\ total >= nk /\ total <= 4 * (nk + 7)
    BY <1>2
  <2> QED  BY <2>1, <2>2
<1>5. Schedule(first, nk, total) = f[total]
  BY <1>4, ScheduleWords
<1>6. f[total] \in [1..total -> Column]
  <2>1. total \in nk..total
    BY <1>2
  <2> QED  BY <1>4, <2>1 DEF WordsUpTo
<1>7. \A n \in nk + 1..total : CodeWord(f[n - 1], n) = StandardWord(f[n - 1], n, nk)
  <2> SUFFICES ASSUME NEW n \in nk + 1..total
               PROVE  CodeWord(f[n - 1], n) = StandardWord(f[n - 1], n, nk)
    OBVIOUS
  <2>1. n - 1 \in nk..total
    BY <1>2
  <2>2. f[n - 1] \in [1..n - 1 -> Column]
    BY <1>4, <2>1 DEF WordsUpTo
  <2>3. n \in (Nk + 1)..4 * (Nk + 7)
    BY <1>1
  <2> QED  BY <1>1, <2>2, <2>3, CodeWordIsStandard
<1>8. Q(f)
  <2>1. \A n \in nk..total : f[n] = IF n = nk THEN first ELSE CodeWord(f[n - 1], n)
    <3> SUFFICES ASSUME NEW n \in nk..total
                 PROVE  f[n] = IF n = nk THEN first ELSE CodeWord(f[n - 1], n)
      OBVIOUS
    <3>1. f[n] = IF n = nk THEN first ELSE StandardWord(f[n - 1], n, nk)
      BY <1>4 DEF WordsUpTo
    <3>2. n # nk => n \in nk + 1..total
      OBVIOUS
    <3> QED  BY <1>7, <3>1, <3>2
  <2>2. DOMAIN f = nk..total /\ f = [n \in nk..total |-> f[n]]
    BY <1>4 DEF WordsUpTo
  <2> HIDE DEF total
  <2>3. f = [n \in nk..total |-> IF n = nk THEN first ELSE CodeWord(f[n - 1], n)]
    BY <2>1, <2>2
  <2> QED  BY <2>3
<1>9. ASSUME NEW g, Q(g)
      PROVE  g[total] = f[total]
  <2> DEFINE Good == {n \in Nat : n <= total => g[n] = f[n]}
  <2>1. \A n \in nk..total : g[n] = IF n = nk THEN first ELSE CodeWord(g[n - 1], n)
    BY <1>9, Zenon
  <2>2. \A n \in nk..total : f[n] = IF n = nk THEN first ELSE CodeWord(f[n - 1], n)
    BY <1>8, Zenon
  <2> HIDE DEF Q, total
  <2>3. nk \in Good
    BY <2>1, <2>2, <1>2
  <2>4. ASSUME NEW n \in Nat, n >= nk, n \in Good, n + 1 <= total
        PROVE  g[n + 1] = f[n + 1]
    <3>1. n + 1 \in nk..total /\ n + 1 # nk /\ (n + 1) - 1 = n /\ g[n] = f[n]
      BY <2>4, <1>2
    <3>2. /\ g[n + 1] = CodeWord(g[(n + 1) - 1], n + 1)
          /\ f[n + 1] = CodeWord(f[(n + 1) - 1], n + 1)
      BY <3>1, <2>1, <2>2, Zenon
    <3> QED  BY <3>1, <3>2
  <2>5. \A n \in Nat : n >= nk /\ n \in Good => n + 1 \in Good
    BY <2>4
  <2> HIDE DEF Good
  <2>6. \A n \in Nat : n >= nk => n \in Good
    BY <1>2, <2>3, <2>5, FromOn
  <2> QED  BY <1>2, <2>6 DEF Good
<1>10. KeyExpansion(key) = c[total] \o SubSeq(RoundKey, total + 1, 60)
  BY <1>1, KeyExpansionIs DEF first
<1> HIDE DEF Q
<1>11. Q(c)
  BY <1>8, Zenon
<1>12. c[total] = f[total]
  BY <1>9, <1>11
<1> HIDE DEF c
<1>13. KeyExpansion(key) = f[total] \o SubSeq(RoundKey, total + 1, 60)
  BY <1>10, <1>12
<1> HIDE DEF total
<1>14. SubSeq(RoundKey, total + 1, 60) \in [1..60 - total -> Column]
  <2>1. /\ total + 1 \in Nat /\ 60 \in Nat /\ total + 1 > 0 /\ 60 <= 60 /\ total + 1 <= 60 + 1
        /\ 60 - (total + 1) + 1 = 60 - total
    BY <1>2
  <2>2. \A n, l, m \in Nat : \A w \in [1..n -> Column] :
          l > 0 /\ m <= n /\ l <= m + 1 => SubSeq(w, l, m) \in [1..m - l + 1 -> Column]
    BY SubSeqOf
  <2>3. SubSeq(RoundKey, total + 1, 60) \in [1..60 - (total + 1) + 1 -> Column]
    BY <2>1, <2>2
  <2> QED  BY <2>1, <2>3
<1>15. total \in Nat /\ 60 - total \in Nat /\ total + (60 - total) = 60 /\ total <= 60
  BY <1>2
<1> DEFINE r == SubSeq(RoundKey, total + 1, 60)
<1>16. WordsOf(f[total], total) /\ WordsOf(r, 60 - total)
  BY <1>6, <1>14, <1>15 DEF WordsOf
<1>17. KeyExpansion(key) = f[total] \o r
  BY <1>13
<1> HIDE DEF r
<1>18. WordsOf(KeyExpansion(key), 60) /\ SameWords(KeyExpansion(key), f[total], total)
  BY <1>16, <1>17, ConcatWords
<1> QED  BY <1>1, <1>5, <1>6, <1>18 DEF total, first, WordsOf, SameWords

-----------------------------------------------------------------------------
(* Blocks, buffers and the bytes in them.                                  *)

Bytewise(w, n) == n \in Nat /\ w \in Seq(Octet) /\ Len(w) = n
JoinedAs(e, w, v, n, m) == \A k \in 1..n + m : e[k] = IF k <= n THEN w[k] ELSE v[k - n]

LEMMA JoinedAt ==
  ASSUME NEW T, NEW w \in Seq(T), NEW v \in Seq(T), NEW k \in 1..Len(w) + Len(v)
  PROVE  (w \o v)[k] = IF k <= Len(w) THEN w[k] ELSE v[k - Len(w)]
OBVIOUS

LEMMA Joined ==
  ASSUME NEW w, NEW v, NEW n, NEW m, Bytewise(w, n), Bytewise(v, m), NEW e, e = w \o v
  PROVE  Bytewise(e, n + m) /\ JoinedAs(e, w, v, n, m)
<1>1. n \in Nat /\ w \in Seq(Octet) /\ Len(w) = n /\ m \in Nat /\ v \in Seq(Octet) /\ Len(v) = m
  BY DEF Bytewise
<1>2. w \o v \in [1..n + m -> Octet]
  BY <1>1, ConcatOf
<1>3. n + m \in Nat
  BY <1>1
<1>4. Bytewise(e, n + m)
  BY <1>2, <1>3, FunctionIsSeq DEF Bytewise
<1>5. ASSUME NEW k \in 1..n + m PROVE e[k] = IF k <= n THEN w[k] ELSE v[k - n]
  <2>1. k \in Nat /\ k > 0 /\ k <= n + m
    BY <1>1
  <2>2. (w \o v)[k] = IF k <= n THEN w[k] ELSE v[k - n]
    <3>1. k \in 1..Len(w) + Len(v)
      BY <1>1
    <3>2. w \in Seq(Octet) /\ v \in Seq(Octet)
      BY <1>1
    <3>3. (w \o v)[k] = IF k <= Len(w) THEN w[k] ELSE v[k - Len(w)]
      BY <3>1, <3>2, JoinedAt
    <3> QED  BY <1>1, <3>3
  <2> QED  BY <2>2
<1>6. JoinedAs(e, w, v, n, m)
  BY <1>5 DEF JoinedAs
<1> QED  BY <1>4, <1>6

(* The bytes of a block, one after the other.                              *)
LEMMA BytesFacts ==
  ASSUME NEW s \in Block
  PROVE  /\ Bytes(s) \in [1..16 -> Octet]
         /\ \A c \in 1..4, r \in 1..4 : Bytes(s)[4 * (c - 1) + r] = s[c][r]
<1>1. PICK a \in Column, b \in Column, c \in Column, d \in Column : a = s[1] /\ b = s[2] /\ c = s[3] /\ d = s[4]
  BY DEF Block
<1>2. /\ a \in Seq(Octet) /\ Len(a) = 4 /\ b \in Seq(Octet) /\ Len(b) = 4
      /\ c \in Seq(Octet) /\ Len(c) = 4 /\ d \in Seq(Octet) /\ Len(d) = 4
  BY FunctionIsSeq DEF Column
<1>3. PICK u : u = a \o b
  OBVIOUS
<1>4. u \in Seq(Octet) /\ Len(u) = 8 /\ \A k \in 1..8 : u[k] = IF k <= 4 THEN a[k] ELSE b[k - 4]
  <2>1. Bytewise(a, 4) /\ Bytewise(b, 4)
    BY <1>2 DEF Bytewise
  <2>2. Bytewise(u, 4 + 4) /\ JoinedAs(u, a, b, 4, 4)
    BY <1>3, <2>1, Joined
  <2>3. 4 + 4 = 8
    OBVIOUS
  <2> QED  BY <2>2, <2>3 DEF Bytewise, JoinedAs
<1>5. PICK v : v = u \o c
  OBVIOUS
<1>6. v \in Seq(Octet) /\ Len(v) = 12 /\ \A k \in 1..12 : v[k] = IF k <= 8 THEN u[k] ELSE c[k - 8]
  <2>1. Bytewise(u, 8) /\ Bytewise(c, 4)
    BY <1>2, <1>4 DEF Bytewise
  <2>2. Bytewise(v, 8 + 4) /\ JoinedAs(v, u, c, 8, 4)
    BY <1>5, <2>1, Joined
  <2>3. 8 + 4 = 12
    OBVIOUS
  <2> QED  BY <2>2, <2>3 DEF Bytewise, JoinedAs
<1>7. PICK w : w = v \o d
  OBVIOUS
<1>8. w \in Seq(Octet) /\ Len(w) = 16 /\ \A k \in 1..16 : w[k] = IF k <= 12 THEN v[k] ELSE d[k - 12]
  <2>1. Bytewise(v, 12) /\ Bytewise(d, 4)
    BY <1>2, <1>6 DEF Bytewise
  <2>2. Bytewise(w, 12 + 4) /\ JoinedAs(w, v, d, 12, 4)
    BY <1>7, <2>1, Joined
  <2>3. 12 + 4 = 16
    OBVIOUS
  <2> QED  BY <2>2, <2>3 DEF Bytewise, JoinedAs
<1>9. Bytes(s) = w
  BY <1>1, <1>3, <1>5, <1>7 DEF Bytes
<1>10. w \in [1..16 -> Octet]
  BY <1>8, SeqIsFunction
<1>11. ASSUME NEW x \in 1..4, NEW r \in 1..4 PROVE w[4 * (x - 1) + r] = s[x][r]
  <2>1. CASE x = 1
    <3>1. w[r] = v[r] /\ v[r] = u[r] /\ u[r] = a[r]
      BY <1>4, <1>6, <1>8, SMTT(60)
    <3>2. 4 * (x - 1) + r = r
      BY <2>1
    <3> QED  BY <1>1, <2>1, <3>1, <3>2
  <2>2. CASE x = 2
    <3>1. w[r + 4] = v[r + 4] /\ v[r + 4] = u[r + 4] /\ u[r + 4] = b[r]
      BY <1>4, <1>6, <1>8, SMTT(60)
    <3>2. 4 * (x - 1) + r = r + 4
      BY <2>2
    <3> QED  BY <1>1, <2>2, <3>1, <3>2
  <2>3. CASE x = 3
    <3>1. w[r + 8] = v[r + 8] /\ v[r + 8] = c[r]
      BY <1>6, <1>8
    <3>2. 4 * (x - 1) + r = r + 8
      BY <2>3
    <3> QED  BY <1>1, <2>3, <3>1, <3>2
  <2>4. CASE x = 4
    <3>1. w[r + 12] = d[r]
      BY <1>8, SMTT(60)
    <3>2. 4 * (x - 1) + r = r + 12
      BY <2>4
    <3> QED  BY <1>1, <2>4, <3>1, <3>2
  <2> QED  BY <2>1, <2>2, <2>3, <2>4
<1> QED  BY <1>9, <1>10, <1>11

(* The place of a byte in its block.                                       *)
Place(x, r) == 4 * (x - 1) + r

(* Every byte of a block has its place.                                    *)
LEMMA PlaceOf == \A j \in 1..16 : \E x \in 1..4, r \in 1..4 : j = Place(x, r)
<1> SUFFICES ASSUME NEW j \in 1..16 PROVE \E x \in 1..4, r \in 1..4 : j = Place(x, r)
  OBVIOUS
<1>1. (j - 1) \div 4 + 1 \in 1..4 /\ ((j - 1) % 4) + 1 \in 1..4
  OBVIOUS
<1>2. j = 4 * (((j - 1) \div 4 + 1) - 1) + (((j - 1) % 4) + 1)
  OBVIOUS
<1> QED  BY <1>1, <1>2 DEF Place

(* A block is known by its bytes.                                          *)
LEMMA SameBytes ==
  ASSUME NEW s \in Block, NEW t \in Block, \A x \in 1..4, r \in 1..4 : s[x][r] = t[x][r]
  PROVE  s = t
<1>1. ASSUME NEW x \in 1..4 PROVE s[x] = t[x]
  <2>1. s[x] \in [1..4 -> Octet] /\ t[x] \in [1..4 -> Octet]
    BY DEF Block, Column
  <2> QED  BY <2>1
<1> QED  BY <1>1 DEF Block

(* The b-th sixteen of a function of octets.                               *)
OctetsAt(f, b) == \A j \in 1..16 : f[16 * (b - 1) + j] \in Octet

(* Sixteen octets make a block.                                            *)
LEMMA BlockOfFacts ==
  ASSUME NEW f, NEW b \in Nat, b > 0, OctetsAt(f, b)
  PROVE  /\ BlockOf(f, b) \in Block
         /\ \A x \in 1..4, r \in 1..4 : BlockOf(f, b)[x][r] = f[16 * (b - 1) + Place(x, r)]
<1>1. PICK p \in Nat : p = BLOCKLEN * (b - 1) /\ p = 16 * (b - 1)
  BY DEF BLOCKLEN
<1>2. \A j \in 1..16 : f[p + j] \in Octet
  BY <1>1 DEF OctetsAt
<1>3. BlockOf(f, b) = << << f[p + 1], f[p + 2], f[p + 3], f[p + 4] >>,
                         << f[p + 4 + 1], f[p + 4 + 2], f[p + 4 + 3], f[p + 4 + 4] >>,
                         << f[p + 8 + 1], f[p + 8 + 2], f[p + 8 + 3], f[p + 8 + 4] >>,
                         << f[p + 12 + 1], f[p + 12 + 2], f[p + 12 + 3], f[p + 12 + 4] >> >>
  BY <1>1 DEF BlockOf
<1>4. /\ p + 4 + 1 = p + 5 /\ p + 4 + 2 = p + 6 /\ p + 4 + 3 = p + 7 /\ p + 4 + 4 = p + 8
      /\ p + 8 + 1 = p + 9 /\ p + 8 + 2 = p + 10 /\ p + 8 + 3 = p + 11 /\ p + 8 + 4 = p + 12
      /\ p + 12 + 1 = p + 13 /\ p + 12 + 2 = p + 14 /\ p + 12 + 3 = p + 15 /\ p + 12 + 4 = p + 16
  OBVIOUS
<1>5. PICK g : g = [j \in 1..16 |-> f[p + j]]
  OBVIOUS
<1>6. BlockOf(f, b) = << << g[1], g[2], g[3], g[4] >>, << g[5], g[6], g[7], g[8] >>,
                         << g[9], g[10], g[11], g[12] >>, << g[13], g[14], g[15], g[16] >> >>
  BY <1>3, <1>4, <1>5
<1>7. g \in [1..16 -> Octet]
  BY <1>2, <1>5
<1>8. BlockOf(f, b) \in Block
  <2>1. /\ << g[1], g[2], g[3], g[4] >> \in Column /\ << g[5], g[6], g[7], g[8] >> \in Column
        /\ << g[9], g[10], g[11], g[12] >> \in Column /\ << g[13], g[14], g[15], g[16] >> \in Column
    BY <1>7 DEF Column
  <2> HIDE <1>7
  <2> QED  BY <1>6, <2>1 DEF Block
<1>9. ASSUME NEW x \in 1..4, NEW r \in 1..4
      PROVE  BlockOf(f, b)[x][r] = f[16 * (b - 1) + Place(x, r)]
  <2>1. PICK j \in 1..16 : j = Place(x, r)
    BY DEF Place
  <2>2. BlockOf(f, b)[x][r] = g[j]
    <3>1. x \in {1, 2, 3, 4} /\ r \in {1, 2, 3, 4}
      OBVIOUS
    <3> QED  BY <1>6, <2>1, <3>1 DEF Place
  <2>3. g[j] = f[p + j]
    BY <1>5
  <2> QED  BY <1>1, <2>1, <2>2, <2>3
<1> QED  BY <1>8, <1>9

(* Byte k of a buffer is where its block and place put it.                 *)
LEMMA ByteAtIs ==
  ASSUME NEW buf \in [1..MaxBlocks -> Block], NEW b \in 1..MaxBlocks, NEW x \in 1..4, NEW r \in 1..4
  PROVE  ByteAt(buf, 16 * (b - 1) + Place(x, r)) = buf[b][x][r]
<1>1. b \in Nat /\ b > 0
  BY FillAssumption
<1>2. PICK j \in 1..16 : j = Place(x, r)
  BY DEF Place
<1>3. PICK p \in Nat : p = 16 * (b - 1) + j
  BY <1>1
<1>4. (p - 1) \div 16 + 1 = b /\ ((p - 1) % 16) + 1 = j
  BY <1>1, <1>3
<1>5. ByteAt(buf, p) = Bytes(buf[b])[j]
  BY <1>4 DEF ByteAt, BLOCKLEN
<1>6. buf[b] \in Block
  OBVIOUS
<1>7. Bytes(buf[b])[4 * (x - 1) + r] = buf[b][x][r]
  BY <1>6, BytesFacts
<1> QED  BY <1>2, <1>3, <1>5, <1>7 DEF Place

(* Every byte of a buffer is one of a block.                               *)
LEMMA ByteIndex ==
  ASSUME NEW k \in Nat, k > 0, k <= 16 * MaxBlocks
  PROVE  \E b \in 1..MaxBlocks, x \in 1..4, r \in 1..4 : k = 16 * (b - 1) + Place(x, r)
<1>1. MaxBlocks \in Nat
  BY FillAssumption
<1>2. PICK b \in Nat : b = (k - 1) \div 16 + 1
  OBVIOUS
<1>3. PICK j \in 1..16 : j = ((k - 1) % 16) + 1
  OBVIOUS
<1>4. k = 16 * (b - 1) + j
  BY <1>2, <1>3
<1>5. b \in 1..MaxBlocks
  BY <1>1, <1>2
<1>6. PICK x \in 1..4, r \in 1..4 : j = Place(x, r)
  BY PlaceOf
<1> QED  BY <1>4, <1>5, <1>6

(* It is an octet.                                                         *)
LEMMA ByteAtIn ==
  ASSUME NEW buf \in [1..MaxBlocks -> Block], NEW k \in Nat, k > 0, k <= 16 * MaxBlocks
  PROVE  ByteAt(buf, k) \in Octet
<1>1. PICK b \in 1..MaxBlocks, x \in 1..4, r \in 1..4 : k = 16 * (b - 1) + Place(x, r)
  BY ByteIndex
<1>2. ByteAt(buf, k) = buf[b][x][r]
  BY <1>1, ByteAtIs
<1>3. buf[b][x][r] \in Octet
  BY DEF Block, Column
<1> QED  BY <1>2, <1>3

(* The buffers of whole blocks.                                            *)
BufferSet == [1..MaxBlocks -> Block]

(* There is a block at least.                                              *)
LEMMA BlocksFacts == MaxBlocks \in Nat /\ MaxBlocks > 0 /\ \A b \in 1..MaxBlocks : b \in Nat /\ b > 0
BY FillAssumption

(* The buffer of a function of octets, block by block.                     *)
LEMMA BufferFacts ==
  ASSUME NEW f, \A b \in 1..MaxBlocks : OctetsAt(f, b)
  PROVE  /\ Buffer(f) \in BufferSet
         /\ \A b \in 1..MaxBlocks, x \in 1..4, r \in 1..4 : Buffer(f)[b][x][r] = f[16 * (b - 1) + Place(x, r)]
<1>1. \A b \in 1..MaxBlocks : Buffer(f)[b] = BlockOf(f, b)
  BY DEF Buffer
<1>2. ASSUME NEW b \in 1..MaxBlocks
      PROVE  /\ Buffer(f)[b] \in Block
             /\ \A x \in 1..4, r \in 1..4 : Buffer(f)[b][x][r] = f[16 * (b - 1) + Place(x, r)]
  <2>1. b \in Nat /\ b > 0
    BY BlocksFacts
  <2> QED  BY <1>1, <2>1, BlockOfFacts
<1>3. Buffer(f) = [b \in 1..MaxBlocks |-> Buffer(f)[b]]
  BY DEF Buffer
<1> QED  BY <1>2, <1>3 DEF BufferSet

(* The bytes of a message, and the fill after them.                        *)
LEMMA FilledFacts ==
  ASSUME NEW m \in Seq(Octet), NEW byte \in Octet
  PROVE  /\ Filled(m, byte) \in BufferSet
         /\ \A b \in 1..MaxBlocks, x \in 1..4, r \in 1..4 :
              LET k == 16 * (b - 1) + Place(x, r)
              IN Filled(m, byte)[b][x][r] = IF k <= Len(m) THEN m[k] ELSE byte
<1> DEFINE f == [k \in 1..BLOCKLEN * MaxBlocks |-> IF k <= Len(m) THEN m[k] ELSE byte]
<1>1. Filled(m, byte) = Buffer(f)
  BY DEF Filled
<1>2. Len(m) \in Nat /\ MaxBlocks \in Nat /\ BLOCKLEN = 16
  BY BlocksFacts DEF BLOCKLEN
<1>3. ASSUME NEW b \in 1..MaxBlocks, NEW j \in 1..16
      PROVE  /\ f[16 * (b - 1) + j] \in Octet
             /\ f[16 * (b - 1) + j] = IF 16 * (b - 1) + j <= Len(m) THEN m[16 * (b - 1) + j] ELSE byte
  <2>1. PICK k \in Nat : k = 16 * (b - 1) + j /\ k > 0 /\ k <= 16 * MaxBlocks
    BY <1>2
  <2>2. f[k] = IF k <= Len(m) THEN m[k] ELSE byte
    BY <1>2, <2>1
  <2>3. k <= Len(m) => m[k] \in Octet
    BY <1>2, <2>1
  <2> HIDE DEF f
  <2> QED  BY <2>1, <2>2, <2>3
<1> HIDE DEF f
<1>4. \A b \in 1..MaxBlocks : OctetsAt(f, b)
  BY <1>3 DEF OctetsAt
<1>5. ASSUME NEW b \in 1..MaxBlocks, NEW x \in 1..4, NEW r \in 1..4
      PROVE  LET k == 16 * (b - 1) + Place(x, r)
             IN Filled(m, byte)[b][x][r] = IF k <= Len(m) THEN m[k] ELSE byte
  <2>1. PICK j \in 1..16 : j = Place(x, r)
    BY DEF Place
  <2>2. Filled(m, byte)[b][x][r] = f[16 * (b - 1) + j]
    BY <1>1, <1>4, <2>1, BufferFacts, SMTT(60)
  <2>3. f[16 * (b - 1) + j] = IF 16 * (b - 1) + j <= Len(m) THEN m[16 * (b - 1) + j] ELSE byte
    BY <1>3
  <2> QED  BY ONLY <2>1, <2>2, <2>3
<1> QED  BY <1>1, <1>4, <1>5, BufferFacts

(* The same, byte by byte.                                                 *)
LEMMA FilledByte ==
  ASSUME NEW m \in Seq(Octet), NEW byte \in Octet, NEW k \in Nat, k > 0, k <= 16 * MaxBlocks
  PROVE  ByteAt(Filled(m, byte), k) = IF k <= Len(m) THEN m[k] ELSE byte
<1>1. PICK b \in 1..MaxBlocks, x \in 1..4, r \in 1..4 : k = 16 * (b - 1) + Place(x, r)
  BY ByteIndex
<1>2. Filled(m, byte) \in [1..MaxBlocks -> Block]
  BY FilledFacts DEF BufferSet
<1>3. ByteAt(Filled(m, byte), 16 * (b - 1) + Place(x, r)) = Filled(m, byte)[b][x][r]
  BY <1>2, ByteAtIs
<1>4. Filled(m, byte)[b][x][r] = IF 16 * (b - 1) + Place(x, r) <= Len(m) THEN m[16 * (b - 1) + Place(x, r)] ELSE byte
  BY FilledFacts, SMTT(60)
<1> QED  BY <1>1, <1>3, <1>4

(* The first n bytes of a buffer.                                          *)
LEMMA TextFacts ==
  ASSUME NEW buf \in BufferSet, NEW n \in Nat, n <= 16 * MaxBlocks
  PROVE  /\ Text(buf, n) \in Seq(Octet) /\ Len(Text(buf, n)) = n
         /\ \A k \in 1..n : Text(buf, n)[k] = ByteAt(buf, k)
<1>1. ASSUME NEW k \in 1..n PROVE ByteAt(buf, k) \in Octet
  <2>1. k \in Nat /\ k > 0 /\ k <= 16 * MaxBlocks
    BY BlocksFacts
  <2> QED  BY <2>1, ByteAtIn DEF BufferSet
<1>2. Text(buf, n) = [k \in 1..n |-> ByteAt(buf, k)]
  BY DEF Text
<1>3. Text(buf, n) \in [1..n -> Octet]
  BY <1>1, <1>2
<1> QED  BY <1>2, <1>3, FunctionIsSeq

(* A text that is put into a buffer has its whole blocks there.            *)
LEMMA FilledText ==
  ASSUME NEW buf \in BufferSet, NEW n \in Nat, n <= 16 * MaxBlocks, NEW b \in 1..MaxBlocks, 16 * b <= n
  PROVE  Filled(Text(buf, n), 0)[b] = buf[b]
<1>1. PICK t : t = Text(buf, n)
  OBVIOUS
<1>2. t \in Seq(Octet) /\ Len(t) = n /\ \A k \in 1..n : t[k] = ByteAt(buf, k)
  BY <1>1, TextFacts
<1>3. 0 \in Octet
  BY DEF Octet
<1>4. Filled(t, 0) \in BufferSet
  BY <1>2, <1>3, FilledFacts
<1>5. \A c \in 1..MaxBlocks, x \in 1..4, r \in 1..4 :
        Filled(t, 0)[c][x][r] = IF 16 * (c - 1) + Place(x, r) <= Len(t) THEN t[16 * (c - 1) + Place(x, r)] ELSE 0
  <2>1. t \in Seq(Octet)
    BY <1>2
  <2> QED  BY <2>1, <1>3, FilledFacts
<1>6. ASSUME NEW x \in 1..4, NEW r \in 1..4 PROVE Filled(t, 0)[b][x][r] = buf[b][x][r]
  <2>1. PICK j \in 1..16 : j = Place(x, r)
    BY DEF Place
  <2>2. PICK k \in Nat : k = 16 * (b - 1) + j /\ k > 0 /\ k <= n
    BY BlocksFacts
  <2>3. Filled(t, 0)[b][x][r] = IF 16 * (b - 1) + Place(x, r) <= Len(t) THEN t[16 * (b - 1) + Place(x, r)] ELSE 0
    BY <1>5
  <2>4. Filled(t, 0)[b][x][r] = t[k]
    BY <1>2, <2>1, <2>2, <2>3
  <2>5. t[k] = ByteAt(buf, k)
    BY <1>2, <2>2
  <2>6. ByteAt(buf, 16 * (b - 1) + Place(x, r)) = buf[b][x][r]
    BY ByteAtIs DEF BufferSet
  <2> QED  BY <2>1, <2>2, <2>4, <2>5, <2>6
<1>7. Filled(t, 0)[b] \in Block /\ buf[b] \in Block
  BY <1>4 DEF BufferSet
<1>8. Filled(t, 0)[b] = buf[b]
  BY <1>6, <1>7, SameBytes
<1> QED  BY <1>1, <1>8

(* A byte of a block is set, and the others stay.                          *)
LEMMA NulFacts ==
  ASSUME NEW s \in Block, NEW j \in 1..16
  PROVE  LET t == BlockOf([Bytes(s) EXCEPT ![j] = 0], 1)
         IN /\ t \in Block
            /\ \A x \in 1..4, r \in 1..4 : Place(x, r) # j => t[x][r] = s[x][r]
<1>1. PICK f : f = [Bytes(s) EXCEPT ![j] = 0]
  OBVIOUS
<1>2. Bytes(s) \in [1..16 -> Octet]
  BY BytesFacts
<1>3. f \in [1..16 -> Octet] /\ \A k \in 1..16 : k # j => f[k] = Bytes(s)[k]
  BY <1>1, <1>2 DEF Octet
<1>4. \A k \in 1..16 : 16 * (1 - 1) + k = k
  OBVIOUS
<1>5. OctetsAt(f, 1)
  BY <1>3, <1>4 DEF OctetsAt
<1>6. /\ BlockOf(f, 1) \in Block
      /\ \A x \in 1..4, r \in 1..4 : BlockOf(f, 1)[x][r] = f[16 * (1 - 1) + Place(x, r)]
  BY <1>5, BlockOfFacts
<1>7. ASSUME NEW x \in 1..4, NEW r \in 1..4, Place(x, r) # j PROVE BlockOf(f, 1)[x][r] = s[x][r]
  <2>1. PICK k \in 1..16 : k = Place(x, r)
    BY DEF Place
  <2>2. BlockOf(f, 1)[x][r] = f[k]
    BY <1>4, <1>6, <2>1
  <2>3. f[k] = Bytes(s)[k]
    BY <1>3, <1>7, <2>1
  <2>4. Bytes(s)[Place(x, r)] = s[x][r]
    BY BytesFacts DEF Place
  <2> QED  BY <2>1, <2>2, <2>3, <2>4
<1> QED  BY <1>1, <1>6, <1>7

(* The null character that ends a decrypted message changes no other byte. *)
LEMMA WithNulFacts ==
  ASSUME NEW buf \in BufferSet, NEW k \in Nat, k > 0
  PROVE  /\ WithNul(buf, k) \in BufferSet
         /\ \A n \in Nat : n > 0 /\ n <= 16 * MaxBlocks /\ n # k => ByteAt(WithNul(buf, k), n) = ByteAt(buf, n)
<1>1. PICK b \in Nat : b = (k - 1) \div 16 + 1 /\ b > 0
  OBVIOUS
<1>2. PICK j \in 1..16 : j = ((k - 1) % 16) + 1
  OBVIOUS
<1>3. k = 16 * (b - 1) + j
  BY <1>1, <1>2
<1>4. WithNul(buf, k) = IF b > MaxBlocks THEN buf ELSE [buf EXCEPT ![b] = BlockOf([Bytes(buf[b]) EXCEPT ![j] = 0], 1)]
  BY <1>1, <1>2 DEF WithNul, BLOCKLEN
<1>5. CASE b > MaxBlocks
  BY <1>4, <1>5
<1>6. CASE ~(b > MaxBlocks)
  <2>1. b \in 1..MaxBlocks
    BY <1>1, <1>6, BlocksFacts
  <2>2. PICK t : t = BlockOf([Bytes(buf[b]) EXCEPT ![j] = 0], 1)
    OBVIOUS
  <2>3. buf[b] \in Block
    BY <2>1 DEF BufferSet
  <2>4. t \in Block /\ \A x \in 1..4, r \in 1..4 : Place(x, r) # j => t[x][r] = buf[b][x][r]
    BY <2>2, <2>3, NulFacts
  <2>5. PICK new : new = WithNul(buf, k)
    OBVIOUS
  <2>6. new = [buf EXCEPT ![b] = t]
    BY <1>4, <1>6, <2>2, <2>5
  <2>7. new \in BufferSet /\ new[b] = t /\ \A c \in 1..MaxBlocks : c # b => new[c] = buf[c]
    BY <2>1, <2>4, <2>6 DEF BufferSet
  <2>8. ASSUME NEW n \in Nat, n > 0, n <= 16 * MaxBlocks, n # k
        PROVE  ByteAt(new, n) = ByteAt(buf, n)
    <3>1. PICK c \in 1..MaxBlocks, x \in 1..4, r \in 1..4 : n = 16 * (c - 1) + Place(x, r)
      BY <2>8, ByteIndex
    <3>2. ByteAt(new, 16 * (c - 1) + Place(x, r)) = new[c][x][r] /\ ByteAt(buf, 16 * (c - 1) + Place(x, r)) = buf[c][x][r]
      BY <2>7, ByteAtIs DEF BufferSet
    <3>3. new[c][x][r] = buf[c][x][r]
      <4>1. CASE c # b
        BY <2>7, <4>1
      <4>2. CASE c = b
        <5>1. Place(x, r) # j
          BY <1>3, <2>8, <3>1, <4>2
        <5> QED  BY <2>4, <2>7, <4>2, <5>1
      <4> QED  BY <4>1, <4>2
    <3> QED  BY <3>1, <3>2, <3>3
  <2> QED  BY <2>5, <2>7, <2>8
<1> QED  BY <1>5, <1>6

-----------------------------------------------------------------------------
(* Round keys, and the rounds that lead from one block to another.         *)

(* The types of keys, and the keys with them.                              *)
KeyPairs == AES_TYPE \X Keys
(* The rounds of a key: 10, 12 or 14.                                      *)
Rounds(k) == 2 * k[1] + 10

(* The round keys of the standard are words enough for all rounds.         *)
LEMMA StandardKeysTyped ==
  ASSUME NEW k \in KeyPairs
  PROVE  /\ Rounds(k) \in {10, 12, 14} /\ k[1] \in AES_TYPE /\ k[2] \in Keys
         /\ StandardKeys[k] \in [1..4 * (Rounds(k) + 1) -> Column]
<1>1. PICK t \in AES_TYPE, key \in Keys : k = << t, key >> /\ k[1] = t /\ k[2] = key
  BY DEF KeyPairs
<1>2. Rounds(k) \in {10, 12, 14} /\ Rounds(k) = 2 * t + 10
  BY <1>1 DEF Rounds, AES_TYPE
<1>3. PICK nk \in {4, 6, 8} : nk = 4 + 2 * t
  BY DEF AES_TYPE
<1>4. key \in [1..8 -> Column]
  BY KeyAssumption DEF Column, Octet
<1>5. SubSeq(key, 1, nk) \in [1..nk -> Column]
  <2>1. /\ nk \in Nat /\ 8 \in Nat /\ 1 \in Nat /\ 1 > 0 /\ nk <= 8 /\ 1 <= nk + 1
        /\ nk - 1 + 1 = nk
    OBVIOUS
  <2>2. \A n, l, m \in Nat : \A w \in [1..n -> Column] :
          l > 0 /\ m <= n /\ l <= m + 1 => SubSeq(w, l, m) \in [1..m - l + 1 -> Column]
    BY SubSeqOf
  <2>3. SubSeq(key, 1, nk) \in [1..nk - 1 + 1 -> Column]
    BY <1>4, <2>1, <2>2
  <2> QED  BY <2>1, <2>3
<1>6. PICK f : WordsUpTo(f, SubSeq(key, 1, nk), nk, 4 * (nk + 7))
  <2>1. 4 * (nk + 7) \in Nat /\ 4 * (nk + 7) >= nk
    OBVIOUS
  <2>2. \A h \in Nat : h >= nk /\ h <= 4 * (nk + 7) => \E f : WordsUpTo(f, SubSeq(key, 1, nk), nk, h)
    BY <1>5, WordsExist
  <2> QED  BY <2>1, <2>2
<1>7. Schedule(SubSeq(key, 1, nk), nk, 4 * (nk + 7)) = f[4 * (nk + 7)]
  BY <1>6, ScheduleWords
<1>8. f[4 * (nk + 7)] \in [1..4 * (nk + 7) -> Column]
  BY <1>6 DEF WordsUpTo
<1>9. StandardKeys[k] = Schedule(SubSeq(key, 1, nk), nk, 4 * (nk + 7))
  BY <1>1, <1>3 DEF StandardKeys, KeyPairs
<1>10. 4 * (Rounds(k) + 1) = 4 * (nk + 7)
  BY <1>2, <1>3 DEF AES_TYPE
<1> QED  BY <1>1, <1>2, <1>7, <1>8, <1>9, <1>10

(* A round key is taken from four words.                                   *)
LEMMA WithRoundKeyFacts ==
  ASSUME NEW s \in Block, NEW n \in Nat, NEW w \in [1..4 * (n + 1) -> Column], NEW r \in Nat, r <= n
  PROVE  /\ WithRoundKey(s, w, r) \in Block
         /\ WithRoundKey(WithRoundKey(s, w, r), w, r) = s
<1>1. w[4*r + 1] \in Column /\ w[4*r + 2] \in Column /\ w[4*r + 3] \in Column /\ w[4*r + 4] \in Column
  OBVIOUS
<1>2. PICK k : k = << w[4*r + 1], w[4*r + 2], w[4*r + 3], w[4*r + 4] >>
  OBVIOUS
<1>3. k \in Block
  BY <1>1, <1>2, FourTuple DEF Block
<1>4. WithRoundKey(s, w, r) = XorBlock(s, k) /\ \A t : WithRoundKey(t, w, r) = XorBlock(t, k)
  BY <1>2 DEF WithRoundKey
<1> QED  BY <1>3, <1>4, XorBlockFacts

(* The rounds of a block under a key: r of them lead from x to s.          *)
IsPath(p, x, k, r) == /\ p \in [Nat -> Block]
                      /\ p[0] = WithRoundKey(x, StandardKeys[k], 0)
                      /\ \A n \in Nat : n < r => p[n + 1] = AfterRound(p[n], StandardKeys[k], n + 1, Rounds(k))
Reaches(x, k, r, s) == r \in Nat /\ r <= Rounds(k) /\ \E p : IsPath(p, x, k, r) /\ p[r] = s

(* A round of the standard is one of the code: the last leaves MixColumns  *)
(* out.                                                                    *)
LEMMA AfterRoundFacts ==
  ASSUME NEW k \in KeyPairs, NEW s \in Block, NEW r \in Nat, r <= Rounds(k)
  PROVE  /\ AfterRound(s, StandardKeys[k], r, Rounds(k)) \in Block
         /\ AfterRound(s, StandardKeys[k], r, Rounds(k)) =
              IF r = Rounds(k) THEN WithRoundKey(ShiftRows(SubBytes(s)), StandardKeys[k], r)
              ELSE WithRoundKey(MixColumns(ShiftRows(SubBytes(s))), StandardKeys[k], r)
<1>1. Rounds(k) \in Nat /\ StandardKeys[k] \in [1..4 * (Rounds(k) + 1) -> Column]
  BY StandardKeysTyped
<1>2. PICK t : t = SubBytes(s)
  OBVIOUS
<1>3. t \in Block /\ Substituted(s) = t
  BY <1>2, SubBytesFacts
<1>4. PICK u : u = ShiftRows(t)
  OBVIOUS
<1>5. u \in Block /\ Shifted(t) = u
  BY <1>3, <1>4, ShiftRowsFacts
<1>6. MixColumns(u) \in Block /\ Mixed(u) = MixColumns(u)
  BY <1>5, MixColumnsFacts
<1>7. AfterRound(s, StandardKeys[k], r, Rounds(k)) =
        WithRoundKey(IF r = Rounds(k) THEN u ELSE MixColumns(u), StandardKeys[k], r)
  BY <1>3, <1>5, <1>6 DEF AfterRound
<1>8. WithRoundKey(u, StandardKeys[k], r) \in Block /\ WithRoundKey(MixColumns(u), StandardKeys[k], r) \in Block
  BY <1>1, <1>5, <1>6, WithRoundKeyFacts
<1> QED  BY <1>2, <1>4, <1>7, <1>8

(* The first round key comes before the rounds.                            *)
LEMMA ReachStart ==
  ASSUME NEW k \in KeyPairs, NEW x \in Block
  PROVE  /\ WithRoundKey(x, StandardKeys[k], 0) \in Block
         /\ Reaches(x, k, 0, WithRoundKey(x, StandardKeys[k], 0))
<1>1. Rounds(k) \in Nat /\ StandardKeys[k] \in [1..4 * (Rounds(k) + 1) -> Column]
  BY StandardKeysTyped
<1>2. PICK s : s = WithRoundKey(x, StandardKeys[k], 0)
  OBVIOUS
<1>3. s \in Block
  BY <1>1, <1>2, WithRoundKeyFacts
<1>4. IsPath([n \in Nat |-> s], x, k, 0)
  BY <1>2, <1>3 DEF IsPath
<1> QED  BY <1>1, <1>2, <1>3, <1>4 DEF Reaches

(* A round more reaches one block further.                                 *)
LEMMA ReachStep ==
  ASSUME NEW k \in KeyPairs, NEW x, NEW r \in Nat, r < Rounds(k), NEW s, Reaches(x, k, r, s)
  PROVE  /\ s \in Block
         /\ AfterRound(s, StandardKeys[k], r + 1, Rounds(k)) \in Block
         /\ Reaches(x, k, r + 1, AfterRound(s, StandardKeys[k], r + 1, Rounds(k)))
<1>1. Rounds(k) \in Nat
  BY StandardKeysTyped
<1>2. PICK p : IsPath(p, x, k, r) /\ p[r] = s
  BY DEF Reaches
<1>3. p \in [Nat -> Block] /\ s \in Block
  BY <1>2 DEF IsPath
<1>4. PICK t : t = AfterRound(s, StandardKeys[k], r + 1, Rounds(k))
  OBVIOUS
<1>5. t \in Block
  <2>1. r + 1 \in Nat /\ r + 1 <= Rounds(k)
    BY <1>1
  <2> QED  BY <1>3, <1>4, <2>1, AfterRoundFacts
<1>6. PICK q : q = [p EXCEPT ![r + 1] = t]
  OBVIOUS
<1>7. q \in [Nat -> Block] /\ q[r + 1] = t /\ \A n \in Nat : n # r + 1 => q[n] = p[n]
  BY <1>3, <1>5, <1>6
<1>8. IsPath(q, x, k, r + 1)
  <2>1. q[0] = WithRoundKey(x, StandardKeys[k], 0)
    BY <1>2, <1>7 DEF IsPath
  <2>2. ASSUME NEW n \in Nat, n < r + 1 PROVE q[n + 1] = AfterRound(q[n], StandardKeys[k], n + 1, Rounds(k))
    <3>1. CASE n = r
      BY <1>2, <1>4, <1>7, <3>1
    <3>2. CASE n # r
      <4>1. n < r /\ q[n] = p[n] /\ q[n + 1] = p[n + 1]
        BY <1>7, <2>2, <3>2
      <4> QED  BY <1>2, <4>1 DEF IsPath
    <3> QED  BY <3>1, <3>2
  <2> QED  BY <1>7, <2>1, <2>2 DEF IsPath
<1>9. Reaches(x, k, r + 1, t)
  BY <1>1, <1>7, <1>8 DEF Reaches
<1> QED  BY <1>3, <1>4, <1>5, <1>9

(* And the block before it was reached too: what Decrypt relies on.        *)
LEMMA ReachBack ==
  ASSUME NEW k \in KeyPairs, NEW x, NEW r \in Nat, NEW s, Reaches(x, k, r, s)
  PROVE  /\ s \in Block
         /\ r = 0 => s = WithRoundKey(x, StandardKeys[k], 0)
         /\ r > 0 => \E t \in Block : /\ Reaches(x, k, r - 1, t)
                                      /\ s = AfterRound(t, StandardKeys[k], r, Rounds(k))
<1>1. Rounds(k) \in Nat
  BY StandardKeysTyped
<1>2. PICK p : IsPath(p, x, k, r) /\ p[r] = s /\ r <= Rounds(k)
  BY DEF Reaches
<1>3. p \in [Nat -> Block] /\ s \in Block
  BY <1>2 DEF IsPath
<1>4. r = 0 => s = WithRoundKey(x, StandardKeys[k], 0)
  BY <1>2 DEF IsPath
<1>5. ASSUME r > 0 PROVE \E t \in Block : Reaches(x, k, r - 1, t) /\ s = AfterRound(t, StandardKeys[k], r, Rounds(k))
  <2>1. PICK n \in Nat : r = n + 1 /\ n = r - 1
    BY <1>5
  <2>2. p[n] \in Block /\ s = AfterRound(p[n], StandardKeys[k], r, Rounds(k))
    BY <1>2, <1>3, <2>1 DEF IsPath
  <2>3. IsPath(p, x, k, n)
    BY <1>2, <2>1 DEF IsPath
  <2>4. Reaches(x, k, n, p[n])
    BY <1>1, <1>2, <2>1, <2>3 DEF Reaches
  <2> QED  BY <2>1, <2>2, <2>4
<1> QED  BY <1>3, <1>4, <1>5

-----------------------------------------------------------------------------
(* The inductive invariant, part by part.                                  *)

(* The buffers a call works on, and the calls.                             *)
BufferNames == {"iv", "plain", "cipher", "text", "back"}
Buffers == {"plain", "cipher", "text", "back"}
CallSet == [fn : {"encrypt"}, cbc : BOOLEAN, pad : BOOLEAN, src : {"plain"}, dst : {"cipher"}]
             \cup [fn : {"decrypt"}, cbc : BOOLEAN, pad : BOOLEAN, src : {"text"}, dst : {"back"}]
(* The bytes a call may be given: the buffers have a block to spare.       *)
Limit == 16 * (MaxBlocks - 1)
(* A call is at work on its blocks.                                        *)
Active == at \in {"block", "round"}

(* The type invariant of Aes, split.  The initialization vector counts for *)
(* one block; the other buffers have MaxBlocks.                            *)
MemTyped == /\ mem = [b \in BufferNames |-> mem[b]]
            /\ mem["iv"][1] \in Block
            /\ \A b \in Buffers : mem[b] \in BufferSet
StaticTyped == AES_type \in AES_TYPE /\ RoundKey \in [1..60 -> Column]
WorkTyped == state \in Block /\ prev \in Block /\ ref \in Block /\ kept \in BOOLEAN /\ whole \in BOOLEAN
CallTyped == /\ at \in {"idle", "block", "round", "end", "done"}
             /\ at # "idle" => call \in CallSet
             /\ length \in Nat /\ length <= Limit /\ i \in Nat /\ round \in Nat /\ calls \in Nat
             /\ Active => 16 * i < length + 16
             /\ at = "round" => length > 0
             /\ at = "round" /\ Encrypting => round \in 1..Nr
             /\ at = "round" /\ Decrypting => round \in 0..Nr - 1
AesTypeOK == StaticTyped /\ MemTyped /\ WorkTyped /\ CallTyped

(* The round keys are those of the key they were made with.                *)
KeyOK == /\ keyed \in KeyPairs /\ keyed[1] = AES_type
         /\ \A k \in 1..4 * (Nr + 1) : RoundKey[k] = StandardKeys[keyed][k]
(* They are for every call at work, and since the first key was given.     *)
KeyInv == keyed # NULL \/ Active => KeyOK

(* An encryption goes from plain to cipher, a decryption from text to      *)
(* back.                                                                   *)
LEMMA CallFacts ==
  ASSUME NEW c \in CallSet
  PROVE  /\ c.cbc \in BOOLEAN /\ c.pad \in BOOLEAN
         /\ c.fn \in {"encrypt", "decrypt"}
         /\ c.fn = "encrypt" => c.src = "plain" /\ c.dst = "cipher"
         /\ c.fn = "decrypt" => c.src = "text" /\ c.dst = "back"
BY DEF CallSet

(* The block at work is in the buffers.                                    *)
LEMMA LimitFacts ==
  ASSUME CallTyped, Active
  PROVE  /\ i + 1 \in 1..MaxBlocks /\ i \in Nat /\ length \in Nat /\ MaxBlocks \in Nat
         /\ i > 0 => i \in 1..MaxBlocks
         /\ More <=> 16 * i < length
BY BlocksFacts DEF CallTyped, Limit, More, BLOCKLEN

-----------------------------------------------------------------------------
(* What the actions do to the parts.                                       *)

(* One buffer is set, or one block of a buffer.                            *)
Sets(b, f) == mem'[b] = f /\ \A c \in BufferNames : c # b => mem'[c] = mem[c]
SetsBlock(b, j, v) == /\ mem'[b] \in BufferSet /\ mem'[b][j] = v
                      /\ \A n \in 1..MaxBlocks : n # j => mem'[b][n] = mem[b][n]
                      /\ \A c \in BufferNames : c # b => mem'[c] = mem[c]

(* A whole buffer is set, or a block of it, and the types stay.            *)
LEMMA SetsBuffer ==
  ASSUME MemTyped, NEW b \in Buffers, NEW f \in BufferSet, mem' = [mem EXCEPT ![b] = f]
  PROVE  MemTyped' /\ Sets(b, f)
<1>1. PICK g : g = mem /\ g = [c \in BufferNames |-> g[c]]
  BY DEF MemTyped
<1>2. mem' = [g EXCEPT ![b] = f]
  BY <1>1
<1>3. mem' = [c \in BufferNames |-> IF c = b THEN f ELSE g[c]]
  BY <1>1, <1>2
<1>4. Sets(b, f)
  BY <1>1, <1>3 DEF Sets, Buffers, BufferNames
<1>5. mem' = [c \in BufferNames |-> mem'[c]]
  BY <1>3
<1>6. mem'["iv"][1] \in Block
  BY <1>4 DEF Sets, MemTyped, Buffers, BufferNames
<1>7. \A c \in Buffers : mem'[c] \in BufferSet
  BY <1>4 DEF Sets, MemTyped, Buffers, BufferNames
<1> QED  BY <1>4, <1>5, <1>6, <1>7 DEF MemTyped

LEMMA SetsOne ==
  ASSUME MemTyped, NEW b \in Buffers, NEW j \in 1..MaxBlocks, NEW v \in Block, mem' = [mem EXCEPT ![b][j] = v]
  PROVE  MemTyped' /\ SetsBlock(b, j, v)
<1>1. PICK f : f = [mem[b] EXCEPT ![j] = v]
  OBVIOUS
<1>2. mem[b] \in BufferSet
  BY DEF MemTyped
<1>3. f \in BufferSet /\ f[j] = v /\ \A n \in 1..MaxBlocks : n # j => f[n] = mem[b][n]
  BY <1>1, <1>2 DEF BufferSet
<1>4. mem' = [mem EXCEPT ![b] = f]
  BY <1>1
<1>5. MemTyped' /\ Sets(b, f)
  BY <1>3, <1>4, SetsBuffer
<1> QED  BY <1>3, <1>5 DEF Sets, SetsBlock

LEMMA ZeroTyped == ZeroBlock \in Block /\ ZeroBuffer \in BufferSet
<1>1. ZeroWord \in Column
  BY DEF ZeroWord, Column, Octet
<1>2. ZeroBlock \in Block
  BY <1>1 DEF ZeroBlock, Block
<1> QED  BY <1>2 DEF ZeroBuffer, BufferSet

(* AddRoundKey adds a round key of the standard, and undoes it.            *)
LEMMA AddRoundKeyFacts ==
  ASSUME StaticTyped, KeyOK, NEW s \in Block, NEW r \in 0..Nr
  PROVE  /\ AddRoundKey(s, r) \in Block
         /\ AddRoundKey(s, r) = WithRoundKey(s, StandardKeys[keyed], r)
         /\ AddRoundKey(WithRoundKey(s, StandardKeys[keyed], r), r) = s
         /\ Nr = Rounds(keyed)
<1>1. Nr = Rounds(keyed) /\ Rounds(keyed) \in {10, 12, 14} /\ StandardKeys[keyed] \in [1..4 * (Rounds(keyed) + 1) -> Column]
  <2>1. keyed \in KeyPairs /\ keyed[1] = AES_type
    BY DEF KeyOK
  <2>2. Rounds(keyed) \in {10, 12, 14} /\ StandardKeys[keyed] \in [1..4 * (Rounds(keyed) + 1) -> Column]
    BY <2>1, StandardKeysTyped
  <2>3. Nr = Rounds(keyed)
    BY <2>1 DEF Nr, Nk, Rounds, StaticTyped, AES_TYPE
  <2> QED  BY <2>2, <2>3
<1>2. PICK n \in Nat : n = Nr
  BY <1>1
<1>3. PICK w : w = StandardKeys[keyed]
  OBVIOUS
<1>4. \A k \in 1..4 * (n + 1) : RoundKey[k] = w[k]
  BY <1>2, <1>3 DEF KeyOK
<1>5. r \in Nat /\ r <= n
  BY <1>2
<1>6. /\ 4*r + 1 \in 1..4 * (n + 1) /\ 4*r + 2 \in 1..4 * (n + 1)
      /\ 4*r + 3 \in 1..4 * (n + 1) /\ 4*r + 4 \in 1..4 * (n + 1)
  BY <1>5
<1>7. \A t : AddRoundKey(t, r) = WithRoundKey(t, w, r)
  BY <1>4, <1>6 DEF AddRoundKey, WithRoundKey
<1>8. w \in [1..4 * (n + 1) -> Column]
  BY <1>1, <1>2, <1>3
<1>9. WithRoundKey(s, w, r) \in Block /\ WithRoundKey(WithRoundKey(s, w, r), w, r) = s
  BY <1>5, <1>8, WithRoundKeyFacts
<1> QED  BY <1>1, <1>3, <1>7, <1>9

(* Where the Iv pointer may point: to the caller's vector, or to a block   *)
(* of the cipher (encrypting) or of the text (decrypting).                 *)
IvTargets == {<< "iv", 1 >>} \cup ({"cipher", "text"} \X (1..MaxBlocks))
IvOK == Iv \in IvTargets /\ (kept => mem[Iv[1]][Iv[2]] = prev)
(* Where Iv points there is the block of the chain, unless a buffer was    *)
(* given again; in a CBC call it is the last block made or read.           *)
IvInv == /\ Iv # NULL \/ (Active /\ call.cbc) => IvOK
         /\ Active /\ ~call.cbc /\ kept /\ Iv # NULL => Iv[1] \notin {call.src, call.dst}
         /\ Active /\ call.cbc /\ i > 0 => /\ Encrypting => Iv = << "cipher", i >>
                                           /\ Decrypting => Iv = << "text", i >>

(* What it points to is a block.                                           *)
LEMMA TargetFacts ==
  ASSUME NEW p \in IvTargets
  PROVE  /\ p = << p[1], p[2] >> /\ p[1] \in {"iv", "cipher", "text"} /\ p[1] \in BufferNames
         /\ p[1] = "iv" => p[2] = 1
         /\ p[1] # "iv" => p[2] \in 1..MaxBlocks
<1>1. CASE p = << "iv", 1 >>
  BY <1>1 DEF BufferNames
<1>2. CASE p \in {"cipher", "text"} \X (1..MaxBlocks)
  BY <1>2 DEF BufferNames
<1> QED  BY <1>1, <1>2 DEF IvTargets

LEMMA TargetBlock ==
  ASSUME MemTyped, NEW p \in IvTargets
  PROVE  mem[p[1]][p[2]] \in Block
BY TargetFacts DEF MemTyped, Buffers, BufferSet

(* A call that begins has its round keys and its chain.                    *)
LEMMA BeginKeys ==
  ASSUME StaticTyped, KeyInv, NEW c, NEW n, NEW key \in Keys \cup {NULL}, NEW iv, Begin(c, n, key, iv)
  PROVE  StaticTyped' /\ KeyOK'
<1>1. CASE key = NULL
  <2>1. KeyOK /\ UNCHANGED << AES_type, RoundKey, keyed >>
    BY <1>1 DEF Begin, KeyInv
  <2> QED  BY <2>1 DEF KeyOK, StaticTyped, Nr, Nk
<1>2. CASE key # NULL
  <2>1. key \in Keys /\ RoundKey' = KeyExpansion(key) /\ keyed' = << AES_type, key >> /\ AES_type' = AES_type
    BY <1>2 DEF Begin
  <2>2. key \in [1..8 -> Column]
    BY <2>1, KeyAssumption DEF Column, Octet
  <2>3. AES_type \in AES_TYPE /\ RoundKey \in [1..60 -> Column]
    BY DEF StaticTyped
  <2>4. PICK s : s = Schedule(SubSeq(key, 1, Nk), Nk, 4 * (Nk + 7))
    OBVIOUS
  <2>5. RoundKey' \in [1..60 -> Column] /\ \A k \in 1..4 * (Nk + 7) : RoundKey'[k] = s[k]
    BY <2>1, <2>2, <2>3, <2>4, KeyExpansionFacts
  <2>6. keyed' \in KeyPairs /\ keyed'[1] = AES_type
    BY <2>1, <2>3 DEF KeyPairs
  <2>7. StandardKeys[keyed'] = s
    BY <2>1, <2>3, <2>4 DEF StandardKeys, Nk
  <2>8. 4 * (Nr + 1) = 4 * (Nk + 7) /\ Nr' = Nr
    BY <2>1, <2>3, NkFacts DEF Nr, Nk
  <2> QED  BY <2>1, <2>3, <2>5, <2>6, <2>7, <2>8 DEF KeyOK, StaticTyped
<1> QED  BY <1>1, <1>2

LEMMA BeginCall ==
  ASSUME AesTypeOK, NEW c \in CallSet, NEW n \in Nat, n <= Limit, NEW key, NEW iv \in {"iv", NULL}, Begin(c, n, key, iv)
  PROVE  /\ CallTyped' /\ prev' \in Block /\ kept' \in BOOLEAN /\ state' \in Block /\ ref' \in Block
         /\ call' = c /\ length' = n /\ i' = 0 /\ at' = "block"
<1>1. /\ at' = "block" /\ call' = c /\ length' = n /\ i' = 0 /\ calls' = calls + 1
      /\ UNCHANGED << round, state, ref >>
      /\ prev' = (IF iv = NULL THEN prev ELSE mem[iv][1])
      /\ kept' = (iv # NULL \/ (kept /\ (Iv # NULL => Iv[1] \notin Refilled(c))))
  BY DEF Begin, work
<1>2. prev' \in Block
  BY <1>1 DEF AesTypeOK, WorkTyped, MemTyped
<1>3. state' \in Block /\ ref' \in Block
  BY <1>1 DEF AesTypeOK, WorkTyped
<1>4. CallTyped'
  BY <1>1 DEF AesTypeOK, CallTyped, Active
<1> QED  BY <1>1, <1>2, <1>3, <1>4

(* The vector stays what it was when the source is another buffer.         *)
LEMMA BeginIv ==
  ASSUME MemTyped, IvInv, NEW c \in CallSet, NEW n, NEW key, NEW iv \in {"iv", NULL}, Begin(c, n, key, iv),
         NEW f, Sets(c.src, f)
  PROVE  IvInv'
<1>1. /\ iv = NULL => Iv # NULL \/ ~c.cbc
      /\ Iv' = (IF iv = NULL THEN Iv ELSE << iv, 1 >>)
      /\ prev' = (IF iv = NULL THEN prev ELSE mem[iv][1])
      /\ kept' = (iv # NULL \/ (kept /\ (Iv # NULL => Iv[1] \notin Refilled(c))))
      /\ call' = c /\ i' = 0 /\ at' = "block"
  BY DEF Begin
<1>2. c.src \in {"plain", "text"} /\ c.dst \in {"cipher", "back"} /\ c.cbc \in BOOLEAN
  BY CallFacts
<1>3. CASE iv # NULL
  <2>1. Iv' = << "iv", 1 >> /\ prev' = mem["iv"][1] /\ mem'["iv"] = mem["iv"]
    BY <1>1, <1>2, <1>3 DEF Sets, BufferNames
  <2>2. IvOK'
    BY <2>1 DEF IvOK, IvTargets
  <2>3. Iv'[1] \notin {c.src, c.dst}
    BY <1>2, <2>1
  <2> QED  BY <1>1, <2>2, <2>3 DEF IvInv
<1>4. CASE iv = NULL
  <2>1. Iv' = Iv /\ prev' = prev /\ kept' = (kept /\ (Iv # NULL => Iv[1] \notin Refilled(c)))
    BY <1>1, <1>4
  <2>2. ASSUME Iv # NULL PROVE IvOK'
    <3>1. Iv \in IvTargets /\ (kept => mem[Iv[1]][Iv[2]] = prev)
      BY <2>2 DEF IvInv, IvOK
    <3>2. Iv[1] \in BufferNames
      BY <3>1, TargetFacts
    <3>3. kept' => Iv[1] # c.src
      BY <2>1, <2>2 DEF Refilled
    <3>4. kept' => mem'[Iv[1]] = mem[Iv[1]]
      BY <3>2, <3>3 DEF Sets
    <3> QED  BY <2>1, <3>1, <3>4 DEF IvOK
  <2>3. ~c.cbc /\ kept' /\ Iv # NULL => Iv[1] \notin {c.src, c.dst}
    BY <2>1 DEF Refilled
  <2> QED  BY <1>1, <1>4, <2>1, <2>2, <2>3 DEF IvInv
<1> QED  BY <1>3, <1>4

(* What an encryption has made: its blocks go into the rounds of their     *)
(* keys, each with its chain, and come out as the cipher.                  *)
MadeTyped(mk) == /\ mk.msg \in Messages /\ mk.len \in Nat /\ mk.len <= Limit /\ mk.call \in CallSet
                 /\ mk.keyed \in KeyPairs /\ mk.start \in Block /\ mk.kept \in BOOLEAN
                 /\ mk.call.pad => mk.len = 16 * ((Len(mk.msg) + 15) \div 16)
(* The block that CBC adds to block b of the message.                      *)
ChainOf(mk, c, b) == IF ~mk.call.cbc THEN ZeroBlock ELSE IF b = 1 THEN mk.start ELSE c[b - 1]
Into(mk, c, b) == XorBlock(Filled(mk.msg, init_data)[b], ChainOf(mk, c, b))
MadeBlock(mk, c, b) == Reaches(Into(mk, c, b), mk.keyed, Rounds(mk.keyed), c[b])
MadeBlocks(mk, c, n) ==
  (mk.call.cbc => mk.kept) => \A b \in 1..MaxBlocks : 16 * b <= mk.len /\ b <= n => MadeBlock(mk, c, b)

(* A message that is kept is octets, with their fill.                      *)
LEMMA FilledMade ==
  ASSUME NEW mk, MadeTyped(mk)
  PROVE  Filled(mk.msg, init_data) \in BufferSet /\ mk.msg \in Seq(Octet) /\ init_data \in Octet
<1>1. mk.msg \in Seq(Octet)
  BY MessageAssumption DEF MadeTyped, Octet
<1>2. init_data \in Octet
  BY FillAssumption DEF Octet
<1> QED  BY <1>1, <1>2, FilledFacts

LEMMA IntoTyped ==
  ASSUME NEW mk, MadeTyped(mk), NEW c \in BufferSet, NEW b \in 1..MaxBlocks
  PROVE  Into(mk, c, b) \in Block /\ ChainOf(mk, c, b) \in Block /\ Filled(mk.msg, init_data)[b] \in Block
<1>1. Filled(mk.msg, init_data)[b] \in Block
  BY FilledMade DEF BufferSet
<1>2. b # 1 => c[b - 1] \in Block
  <2>1. b # 1 => b - 1 \in 1..MaxBlocks
    BY BlocksFacts
  <2> QED  BY <2>1 DEF BufferSet
<1>3. ChainOf(mk, c, b) \in Block
  BY <1>2, ZeroTyped DEF ChainOf, MadeTyped
<1> QED  BY <1>1, <1>3, XorBlockFacts DEF Into

(* A block and the one before it are what counts.                          *)
LEMMA MadeSame ==
  ASSUME NEW mk, NEW c, NEW d, NEW n \in Nat, \A b \in 1..MaxBlocks : b <= n => d[b] = c[b], MadeBlocks(mk, c, n)
  PROVE  MadeBlocks(mk, d, n)
<1> SUFFICES ASSUME mk.call.cbc => mk.kept, NEW b \in 1..MaxBlocks, 16 * b <= mk.len, b <= n
             PROVE  MadeBlock(mk, d, b)
  BY DEF MadeBlocks
<1>1. MadeBlock(mk, c, b)
  BY DEF MadeBlocks
<1>2. d[b] = c[b] /\ (b # 1 => d[b - 1] = c[b - 1])
  <2>1. b # 1 => b - 1 \in 1..MaxBlocks /\ b - 1 <= n
    BY BlocksFacts
  <2> QED  BY <2>1
<1>3. ChainOf(mk, d, b) = ChainOf(mk, c, b)
  BY <1>2 DEF ChainOf
<1> QED  BY <1>1, <1>2, <1>3 DEF MadeBlock, Into

(* What was made is of the right type, and so are its blocks: all of them  *)
(* between calls, i of them while a call encrypts.                         *)
EncActive == Active /\ call.fn = "encrypt"
MadeOK == made # NULL \/ EncActive =>
            /\ MadeTyped(made)
            /\ MadeBlocks(made, mem["cipher"], IF EncActive THEN i ELSE MaxBlocks)

(* While a call encrypts: the ghost is its own; the blocks of plain that   *)
(* are not yet read are those of the message; the chain is the last block; *)
(* the state is that of the standard after as many rounds.                 *)
EncMade == made.call = call /\ made.len = length /\ made.keyed = keyed /\ made.kept = kept
EncPlain == \A b \in 1..MaxBlocks : b > i /\ (at = "round" => b > i + 1) =>
              mem["plain"][b] = Filled(made.msg, init_data)[b]
EncChain == call.cbc => prev = IF i = 0 THEN made.start ELSE mem["cipher"][i]
EncRound == at = "round" /\ More => /\ state = ref
                                    /\ Reaches(Into(made, mem["cipher"], i + 1), keyed, round - 1, ref)
EncBlock == at = "block" /\ i > 0 => state = ref /\ mem["cipher"][i] = ref
EncInv == EncActive => /\ EncMade /\ EncPlain
                       /\ Encrypting /\ (call.cbc => kept) => EncChain /\ EncRound /\ EncBlock

(* While a call decrypts what was encrypted as a whole: same key and       *)
(* chain; the text is the cipher; the blocks so far are the message's; the *)
(* state is one that the standard reached on the way to the cipher block,  *)
(* one round less at every round.                                          *)
DecMade == /\ made # NULL /\ keyed = made.keyed /\ call.cbc = made.call.cbc /\ length <= made.len
           /\ call.cbc => made.kept /\ kept
DecText == \A b \in 1..MaxBlocks : 16 * b <= length => mem["text"][b] = mem["cipher"][b]
DecBack == \A b \in 1..MaxBlocks : 16 * b <= length /\ (Active => b <= i) =>
             mem["back"][b] = Filled(made.msg, init_data)[b]
DecChain == Active /\ call.cbc => prev = IF i = 0 THEN made.start ELSE mem["text"][i]
DecRound == at = "round" /\ 16 * (i + 1) <= length =>
              \E s : /\ Reaches(Into(made, mem["cipher"], i + 1), keyed, round, s)
                     /\ state = ShiftRows(SubBytes(s))
(* All this for a decryption of a whole text that was made here.           *)
DecInv == Decrypting /\ whole /\ at \in {"block", "round", "end"} =>
            DecMade /\ DecText /\ DecBack /\ DecChain /\ DecRound

(* What Codec encodes is what the call has returned.                       *)
DoneInv == at = "done" /\ Encrypting => ret = -1 \/ ret = length

(* The inductive invariant of Aes.  MessageComesBack is a part of it: End  *)
(* is the action that establishes it, and Return and the next calls have   *)
(* nothing to establish it from.                                           *)
AesInv == /\ AesTypeOK /\ KeyInv /\ IvInv /\ MadeOK /\ EncInv /\ DecInv /\ DoneInv
          /\ MessageComesBack

-----------------------------------------------------------------------------
(* One lemma for each action.                                              *)

(* It holds at the start.                                                  *)
LEMMA AesInvInit == AesInit => AesInv
<1> SUFFICES ASSUME AesInit PROVE AesInv
  OBVIOUS
<1>1. StaticTyped
  <2>1. ZeroWord \in Column
    BY DEF ZeroWord, Column, Octet
  <2> QED  BY <2>1 DEF StaticTyped, AesInit, AES_TYPE
<1>2. MemTyped
  <2>1. Iv0 \in Block
    BY IvAssumption DEF Block, Column, Octet
  <2>2. mem = [b \in BufferNames |-> IF b = "iv" THEN << Iv0 >> ELSE ZeroBuffer]
    BY DEF AesInit, BufferNames
  <2>3. \A b \in Buffers : mem[b] = ZeroBuffer
    BY <2>2 DEF Buffers, BufferNames
  <2>4. mem["iv"] = << Iv0 >>
    BY <2>2 DEF BufferNames
  <2>5. mem = [b \in BufferNames |-> mem[b]]
    BY <2>2
  <2> QED  BY <2>1, <2>3, <2>4, <2>5, ZeroTyped DEF MemTyped
<1>3. WorkTyped
  BY ZeroTyped DEF WorkTyped, AesInit
<1>4. CallTyped
  BY BlocksFacts DEF CallTyped, AesInit, Active, Limit
<1>5. at = "idle" /\ keyed = NULL /\ Iv = NULL /\ made = NULL /\ ~Active
  BY DEF AesInit, Active
<1> QED  BY <1>1, <1>2, <1>3, <1>4, <1>5 DEF AesInv, AesTypeOK, KeyInv, IvInv, MadeOK,
         EncActive, EncInv, DecInv, DoneInv, MessageComesBack

(* It keeps when Aes does nothing.                                         *)
LEMMA AesUnchanged == AesInv /\ UNCHANGED aesvars => AesInv'
<1> SUFFICES ASSUME AesInv, UNCHANGED aesvars PROVE AesInv'
  OBVIOUS
<1>1. /\ UNCHANGED << AES_type, RoundKey, Iv, mem, at, call, length, i, state, round >>
      /\ UNCHANGED << ret, calls, keyed, prev, ref, kept, made, whole >>
  BY DEF aesvars, static, work, ghosts
<1>2. AesTypeOK'
  BY <1>1 DEF AesInv, AesTypeOK, StaticTyped, MemTyped, WorkTyped, CallTyped, Active, Encrypting, Decrypting, Nr, Nk
<1>3. KeyInv' /\ IvInv'
  BY <1>1 DEF AesInv, KeyInv, KeyOK, IvInv, IvOK, Active, Encrypting, Decrypting, Nr, Nk
<1>4. MadeOK'
  BY <1>1 DEF AesInv, MadeOK, EncActive, Active
<1>5. EncInv'
  BY <1>1 DEF AesInv, EncInv, EncActive, Active, Encrypting, EncMade, EncPlain, EncChain, EncRound, EncBlock, More
<1>6. DecInv'
  BY <1>1 DEF AesInv, DecInv, Active, Decrypting, DecMade, DecText, DecBack, DecChain, DecRound
<1>7. DoneInv' /\ MessageComesBack'
  BY <1>1 DEF AesInv, DoneInv, MessageComesBack, Decrypting, Encrypting
<1> QED  BY <1>2, <1>3, <1>4, <1>5, <1>6, <1>7 DEF AesInv

(* mds_api_AES_init chooses a type and starts anew.                        *)
LEMMA AesInitKeeps ==
  ASSUME AesInv, NEW t \in AES_TYPE, mds_api_AES_init(t)
  PROVE  AesInv'
<1>1. /\ at = "idle" /\ AES_type' = t /\ keyed' = (IF t = AES_type THEN keyed ELSE NULL)
      /\ UNCHANGED << RoundKey, Iv, mem, at, call, length, i, state, round >>
      /\ UNCHANGED << ret, calls, prev, ref, kept, made, whole >>
  BY DEF mds_api_AES_init, work
<1>2. AesTypeOK'
  BY <1>1 DEF AesInv, AesTypeOK, StaticTyped, MemTyped, WorkTyped, CallTyped, Active
<1>3. KeyInv'
  BY <1>1 DEF AesInv, KeyInv, KeyOK, Active, Nr, Nk
<1>4. IvInv'
  BY <1>1 DEF AesInv, IvInv, IvOK, Active
<1>5. MadeOK'
  BY <1>1 DEF AesInv, MadeOK, EncActive, Active
<1> QED  BY <1>1, <1>2, <1>3, <1>4, <1>5 DEF AesInv, EncInv, EncActive, Active, DecInv, DoneInv, MessageComesBack

(* The calls of the six functions are in CallSet.                          *)
LEMMA CallsAre ==
  ASSUME NEW b \in BOOLEAN, NEW p \in BOOLEAN
  PROVE  /\ Encrypt(b, p) \in CallSet /\ Encrypt(b, p).fn = "encrypt" /\ Encrypt(b, p).pad = p
         /\ Decrypt(b, p) \in CallSet /\ Decrypt(b, p).fn = "decrypt" /\ Decrypt(b, p).pad = p
BY DEF CallSet, Encrypt, Decrypt

(* A call of an encryption: what was made before is forgotten.             *)
LEMMA BeginEncryptKeeps ==
  ASSUME AesInv, NEW c \in CallSet, c.fn = "encrypt", NEW m \in Messages, NEW n \in Nat, n <= Limit,
         c.pad => n = 16 * ((Len(m) + 15) \div 16),
         NEW key \in Keys \cup {NULL}, NEW iv \in {"iv", NULL}, BeginEncrypt(c, m, n, key, iv)
  PROVE  AesInv'
<1>1. /\ Begin(c, n, key, iv)
      /\ mem' = [mem EXCEPT !["plain"] = Filled(m, init_data)]
      /\ made' = [msg |-> m, len |-> n, call |-> c, keyed |-> keyed', start |-> prev', kept |-> kept']
      /\ whole' = whole
  BY DEF BeginEncrypt
<1>2. Filled(m, init_data) \in BufferSet
  <2>1. m \in Seq(Octet) /\ init_data \in Octet
    BY MessageAssumption, FillAssumption DEF Octet
  <2> QED  BY <2>1, FilledFacts
<1>3. MemTyped' /\ Sets("plain", Filled(m, init_data))
  <2>1. "plain" \in Buffers /\ MemTyped
    BY DEF Buffers, AesInv, AesTypeOK
  <2> QED  BY <1>1, <1>2, <2>1, SetsBuffer
<1>4. StaticTyped' /\ KeyOK'
  BY <1>1, BeginKeys DEF AesInv, AesTypeOK
<1>5. /\ CallTyped' /\ prev' \in Block /\ kept' \in BOOLEAN /\ state' \in Block /\ ref' \in Block
      /\ call' = c /\ length' = n /\ i' = 0 /\ at' = "block"
  BY <1>1, BeginCall DEF AesInv
<1>6. AesTypeOK'
  BY <1>1, <1>3, <1>4, <1>5 DEF AesInv, AesTypeOK, WorkTyped
<1>7. IvInv'
  <2>1. c.src = "plain"
    BY CallFacts
  <2> QED  BY <1>1, <1>3, <2>1, BeginIv DEF AesInv, AesTypeOK
<1>8. MadeOK'
  <2>1. MadeTyped(made')
    BY <1>1, <1>4, <1>5 DEF MadeTyped, KeyOK
  <2>2. (IF EncActive' THEN i' ELSE MaxBlocks) = 0
    BY <1>5 DEF EncActive, Active
  <2>3. MadeBlocks(made', mem'["cipher"], 0)
    BY BlocksFacts DEF MadeBlocks
  <2> QED  BY <2>1, <2>2, <2>3 DEF MadeOK
<1>9. EncInv'
  <2>1. EncMade' /\ EncPlain'
    BY <1>1, <1>3, <1>5 DEF EncMade, EncPlain, Sets
  <2>2. EncChain' /\ EncRound' /\ EncBlock'
    BY <1>1, <1>5 DEF EncChain, EncRound, EncBlock
  <2> QED  BY <2>1, <2>2 DEF EncInv
<1>10. ~Decrypting' /\ at' = "block"
  BY <1>5 DEF Decrypting
<1>11. KeyInv' /\ DecInv' /\ DoneInv' /\ MessageComesBack'
  BY <1>4, <1>10 DEF KeyInv, DecInv, DoneInv, MessageComesBack
<1> QED  BY <1>6, <1>7, <1>8, <1>9, <1>11 DEF AesInv

(* A message that is too long changes nothing but what the call returns.   *)
LEMMA TooLongKeeps ==
  ASSUME AesInv, at = "idle", ret' = -1, at' = "done", calls' = calls + 1, call' = Encrypt(TRUE, TRUE),
         UNCHANGED << static, mem, length, i, work, ghosts >>
  PROVE  AesInv'
<1>1. /\ UNCHANGED << AES_type, RoundKey, Iv, mem, length, i, state, round >>
      /\ UNCHANGED << keyed, prev, ref, kept, made, whole >>
  BY DEF static, work, ghosts
<1>2. ~Active /\ ~Active' /\ call'.fn = "encrypt"
  BY DEF Active, Encrypt
<1>3. AesTypeOK'
  <2>1. call' \in CallSet
    <3>1. Encrypt(TRUE, TRUE) \in CallSet
      BY CallsAre, Zenon
    <3> QED  BY <3>1
  <2>2. CallTyped'
    <3>1. length \in Nat /\ length <= Limit /\ i \in Nat /\ round \in Nat /\ calls + 1 \in Nat
      BY DEF AesInv, AesTypeOK, CallTyped
    <3>2. at' = "done" /\ calls' = calls + 1 /\ length' = length /\ i' = i /\ round' = round
      BY <1>1
    <3> QED  BY <1>2, <2>1, <3>1, <3>2 DEF CallTyped
  <2>3. StaticTyped' /\ MemTyped' /\ WorkTyped'
    BY <1>1 DEF AesInv, AesTypeOK, StaticTyped, MemTyped, WorkTyped
  <2> QED  BY <2>2, <2>3 DEF AesTypeOK
<1>4. KeyInv' /\ IvInv'
  BY <1>1, <1>2 DEF AesInv, KeyInv, KeyOK, IvInv, IvOK, Nr, Nk
<1>5. MadeOK'
  BY <1>1, <1>2 DEF AesInv, MadeOK, EncActive
<1> QED  BY <1>1, <1>2, <1>3, <1>4, <1>5 DEF AesInv, EncInv, EncActive, DecInv, DoneInv, MessageComesBack, Decrypting

(* A call of a decryption.  It is whole when key, chain and text are those *)
(* of what was made.                                                       *)
LEMMA BeginDecryptKeeps ==
  ASSUME AesInv, NEW c \in CallSet, c.fn = "decrypt", NEW text \in Seq(Octet), Len(text) <= Limit,
         NEW n, n = Len(text),
         NEW key \in Keys \cup {NULL}, NEW iv \in {"iv", NULL}, BeginDecrypt(c, text, n, key, iv)
  PROVE  AesInv'
<1>1. c.src = "text" /\ n \in Nat /\ n <= Limit
  BY CallFacts
<1>2. /\ Begin(c, n, key, iv) /\ made # NULL /\ made' = made
      /\ mem' = [mem EXCEPT !["text"] = Filled(text, 0)]
      /\ whole' = /\ keyed' = made.keyed /\ c.cbc = made.call.cbc
                  /\ c.cbc => prev' = made.start /\ made.kept /\ kept'
                  /\ Len(text) <= made.len /\ text = Text(mem["cipher"], Len(text))
  BY <1>1 DEF BeginDecrypt
<1>3. Filled(text, 0) \in BufferSet
  <2>1. 0 \in Octet
    BY DEF Octet
  <2> QED  BY <2>1, FilledFacts
<1>4. MemTyped' /\ Sets("text", Filled(text, 0))
  <2>1. "text" \in Buffers /\ MemTyped
    BY DEF Buffers, AesInv, AesTypeOK
  <2> QED  BY <1>2, <1>3, <2>1, SetsBuffer
<1>5. StaticTyped' /\ KeyOK'
  BY <1>2, BeginKeys DEF AesInv, AesTypeOK
<1>6. /\ CallTyped' /\ prev' \in Block /\ kept' \in BOOLEAN /\ state' \in Block /\ ref' \in Block
      /\ call' = c /\ length' = n /\ i' = 0 /\ at' = "block"
  BY <1>1, <1>2, BeginCall DEF AesInv
<1>7. AesTypeOK'
  <2>1. whole' \in BOOLEAN
    BY <1>2
  <2> QED  BY <1>4, <1>5, <1>6, <2>1 DEF AesTypeOK, WorkTyped
<1>8. IvInv'
  BY <1>1, <1>2, <1>4, BeginIv DEF AesInv, AesTypeOK
<1>9. ~EncActive /\ ~EncActive' /\ mem'["cipher"] = mem["cipher"]
  <2>1. at = "idle"
    BY <1>2 DEF Begin
  <2> QED  BY <1>4, <1>6, <2>1 DEF EncActive, Active, Sets, BufferNames
<1>10. MadeOK' /\ EncInv'
  BY <1>2, <1>9 DEF AesInv, MadeOK, EncInv
<1>11. DecInv'
  <2> SUFFICES ASSUME whole' PROVE DecMade' /\ DecText' /\ DecBack' /\ DecChain' /\ DecRound'
    BY DEF DecInv
  <2>1. DecMade'
    BY <1>2, <1>6 DEF DecMade
  <2>2. DecText'
    <3> SUFFICES ASSUME NEW b \in 1..MaxBlocks, 16 * b <= length' PROVE mem'["text"][b] = mem'["cipher"][b]
      BY DEF DecText
    <3>1. n <= 16 * MaxBlocks /\ 16 * b <= n
      BY <1>1, <1>6, BlocksFacts DEF Limit
    <3>2. mem["cipher"] \in BufferSet
      BY DEF AesInv, AesTypeOK, MemTyped, Buffers
    <3>3. PICK cipher \in BufferSet : cipher = mem["cipher"]
      BY <3>2
    <3>4. Filled(Text(cipher, n), 0)[b] = cipher[b]
      BY <1>1, <3>1, FilledText
    <3>5. text = Text(cipher, n)
      BY <1>2, <3>3
    <3> QED  BY <1>4, <1>9, <3>3, <3>4, <3>5 DEF Sets
  <2>3. DecBack'
    BY <1>6, BlocksFacts DEF DecBack, Active
  <2>4. DecChain' /\ DecRound'
    BY <1>2, <1>6 DEF DecChain, DecRound
  <2> QED  BY <2>1, <2>2, <2>3, <2>4
<1>12. KeyInv' /\ DoneInv' /\ MessageComesBack'
  BY <1>5, <1>6 DEF KeyInv, DoneInv, MessageComesBack
<1> QED  BY <1>7, <1>8, <1>10, <1>11, <1>12 DEF AesInv

(* What an active call works with.                                         *)
LEMMA ActiveFacts ==
  ASSUME AesInv, Active
  PROVE  /\ StaticTyped /\ MemTyped /\ WorkTyped /\ CallTyped /\ KeyOK
         /\ call \in CallSet /\ call.src \in Buffers /\ call.dst \in {"cipher", "back"} /\ call.dst \in Buffers
         /\ i + 1 \in 1..MaxBlocks /\ i \in Nat
         /\ Nr \in {10, 12, 14} /\ Nr = Rounds(keyed) /\ keyed \in KeyPairs
         /\ mem[call.src][i + 1] \in Block /\ mem[call.dst][i + 1] \in Block
         /\ call.cbc => IvOK
<1>1. StaticTyped /\ MemTyped /\ WorkTyped /\ CallTyped /\ KeyOK
  BY DEF AesInv, AesTypeOK, KeyInv
<1>2. call \in CallSet
  BY <1>1 DEF CallTyped, Active
<1>3. call.src \in Buffers /\ call.dst \in {"cipher", "back"} /\ call.dst \in Buffers
  BY <1>2, CallFacts DEF Buffers
<1>4. i + 1 \in 1..MaxBlocks /\ i \in Nat
  BY <1>1, LimitFacts
<1>5. keyed \in KeyPairs /\ Rounds(keyed) \in {10, 12, 14}
  BY <1>1, StandardKeysTyped DEF KeyOK
<1>6. Nr = Rounds(keyed)
  BY <1>1, <1>5 DEF KeyOK, Nr, Nk, Rounds, StaticTyped, AES_TYPE
<1>7. mem[call.src][i + 1] \in Block /\ mem[call.dst][i + 1] \in Block
  BY <1>1, <1>3, <1>4 DEF MemTyped, BufferSet
<1>8. call.cbc => IvOK
  BY DEF AesInv, IvInv
<1> QED  BY <1>1, <1>2, <1>3, <1>4, <1>5, <1>6, <1>7, <1>8

(* A partial last block keeps what the state held.                         *)
LEMMA ExtraInputTyped ==
  ASSUME NEW s \in Block, NEW t \in Block, NEW n
  PROVE  BlockOf([k \in 1..BLOCKLEN |-> IF k <= n THEN Bytes(s)[k] ELSE Bytes(t)[k]], 1) \in Block
<1>1. PICK f : f = [k \in 1..BLOCKLEN |-> IF k <= n THEN Bytes(s)[k] ELSE Bytes(t)[k]]
  OBVIOUS
<1>2. f \in [1..16 -> Octet]
  BY <1>1, BytesFacts DEF BLOCKLEN
<1>3. OctetsAt(f, 1)
  BY <1>2 DEF OctetsAt
<1> QED  BY <1>1, <1>3, BlockOfFacts

(* What CBC adds before the rounds, where the chain is still there.        *)
LEMMA ChainedFacts ==
  ASSUME AesInv, Active, NEW s \in Block
  PROVE  /\ Chained(s) \in Block
         /\ ~call.cbc => Chained(s) = s
         /\ call.cbc /\ kept /\ More => Chained(s) = XorBlock(s, prev)
<1>1. call.cbc => Iv \in IvTargets /\ (kept => mem[Iv[1]][Iv[2]] = prev)
  BY ActiveFacts DEF IvOK
<1>2. call.cbc => mem[Iv[1]][Iv[2]] \in Block
  BY <1>1, ActiveFacts, TargetBlock
<1>3. call.cbc => XorBlock(s, mem[Iv[1]][Iv[2]]) \in Block
  BY <1>2, XorBlockFacts
<1> QED  BY <1>1, <1>3 DEF Chained

(* A block begins: its bytes are read, chained and added to a round key.   *)
LEMMA StartBlockKeeps ==
  ASSUME AesInv, StartBlock
  PROVE  AesInv'
<1> DEFINE in == IF More THEN mem[call.src][i + 1] ELSE ExtraInput
           x == IF Encrypting THEN Chained(in) ELSE in
<1>1. /\ at = "block" /\ at' = "round" /\ Active /\ Active'
      /\ UNCHANGED << AES_type, RoundKey, Iv, call, length, i, ret, calls, keyed, prev, kept, made, whole >>
      /\ round' = IF Encrypting THEN 1 ELSE Nr - 1
      /\ ref' = IF Encrypting /\ More
                THEN WithRoundKey(XorBlock(Filled(made.msg, init_data)[i + 1], IF call.cbc THEN prev ELSE ZeroBlock),
                                  StandardKeys[keyed], 0)
                ELSE ref
  BY DEF StartBlock, static, Active
<1>2. /\ state' = AddRoundKey(x, IF Encrypting THEN 0 ELSE Nr)
      /\ mem' = IF Encrypting /\ More /\ call.cbc THEN [mem EXCEPT ![call.src][i + 1] = x] ELSE mem
  BY DEF StartBlock
<1>3. in \in Block
  <2>1. ExtraInput \in Block
    BY <1>1, ActiveFacts, ExtraInputTyped DEF ExtraInput
  <2> QED  BY <1>1, <2>1, ActiveFacts
<1> HIDE DEF in
<1>4. x \in Block
  BY <1>1, <1>3, ChainedFacts
<1> HIDE DEF x
<1>5. MemTyped' /\ \A b \in BufferNames : b # "plain" => mem'[b] = mem[b]
  <2>1. CASE Encrypting /\ More /\ call.cbc
    <3>1. call.src = "plain"
      BY <1>1, <2>1, ActiveFacts, CallFacts DEF Encrypting
    <3>2. "plain" \in Buffers /\ i + 1 \in 1..MaxBlocks /\ mem' = [mem EXCEPT !["plain"][i + 1] = x] /\ MemTyped
      BY <1>1, <1>2, <2>1, <3>1, ActiveFacts DEF Buffers
    <3>3. MemTyped' /\ SetsBlock("plain", i + 1, x)
      BY <1>4, <3>2, SetsOne
    <3> QED  BY <3>3 DEF SetsBlock
  <2>2. CASE ~(Encrypting /\ More /\ call.cbc)
    BY <1>1, <1>2, <2>2, ActiveFacts DEF MemTyped
  <2> QED  BY <2>1, <2>2
<1>6. \A b \in 1..MaxBlocks : b # i + 1 => mem'["plain"][b] = mem["plain"][b]
  <2>1. CASE Encrypting /\ More /\ call.cbc
    <3>1. call.src = "plain"
      BY <1>1, <2>1, ActiveFacts, CallFacts DEF Encrypting
    <3>2. "plain" \in Buffers /\ i + 1 \in 1..MaxBlocks /\ mem' = [mem EXCEPT !["plain"][i + 1] = x] /\ MemTyped
      BY <1>1, <1>2, <2>1, <3>1, ActiveFacts DEF Buffers
    <3>3. SetsBlock("plain", i + 1, x)
      BY <1>4, <3>2, SetsOne
    <3> QED  BY <3>3 DEF SetsBlock
  <2>2. CASE ~(Encrypting /\ More /\ call.cbc)
    BY <1>2, <2>2
  <2> QED  BY <2>1, <2>2
<1>7. /\ mem'["cipher"] = mem["cipher"] /\ mem'["text"] = mem["text"] /\ mem'["back"] = mem["back"]
      /\ mem'["iv"] = mem["iv"]
  BY <1>5 DEF BufferNames
<1>8. ASSUME Encrypting, More
      PROVE  /\ XorBlock(Filled(made.msg, init_data)[i + 1], IF call.cbc THEN prev ELSE ZeroBlock) \in Block
             /\ Filled(made.msg, init_data)[i + 1] \in Block
             /\ MadeTyped(made)
  <2>1. EncActive
    BY <1>1, <1>8 DEF EncActive, Encrypting
  <2>2. MadeTyped(made)
    BY <2>1 DEF AesInv, MadeOK
  <2>3. Filled(made.msg, init_data)[i + 1] \in Block
    BY <1>1, <2>2, ActiveFacts, FilledMade DEF BufferSet
  <2>4. (IF call.cbc THEN prev ELSE ZeroBlock) \in Block
    BY <1>1, ActiveFacts, ZeroTyped DEF WorkTyped
  <2> QED  BY <2>2, <2>3, <2>4, XorBlockFacts
<1>9. state' \in Block /\ ref' \in Block
  <2>1. (IF Encrypting THEN 0 ELSE Nr) \in 0..Nr
    BY <1>1, ActiveFacts
  <2>2. state' \in Block
    BY <1>1, <1>2, <1>4, <2>1, ActiveFacts, AddRoundKeyFacts
  <2>3. ASSUME Encrypting, More PROVE ref' \in Block
    BY <1>1, <1>8, <2>3, ActiveFacts, ReachStart
  <2> QED  BY <1>1, <2>2, <2>3, ActiveFacts DEF WorkTyped
<1>10. AesTypeOK'
  <2>1. StaticTyped' /\ WorkTyped'
    BY <1>1, <1>9, ActiveFacts DEF StaticTyped, WorkTyped
  <2>2. round' \in Nat /\ (Encrypting => round' \in 1..Nr) /\ (Decrypting => round' \in 0..Nr - 1)
    <3>1. ~(Encrypting /\ Decrypting)
      BY DEF Encrypting, Decrypting
    <3>2. Nr \in {10, 12, 14}
      BY <1>1, ActiveFacts
    <3> QED  BY <1>1, <3>1, <3>2
  <2>3. CallTyped
    BY <1>1, ActiveFacts
  <2>4. length > 0
    BY <2>3 DEF StartBlock, Extra, More, BLOCKLEN, CallTyped
  <2>5. CallTyped'
    BY <1>1, <2>2, <2>3, <2>4 DEF CallTyped, Encrypting, Decrypting, Nr, Nk, Active
  <2> QED  BY <1>5, <2>1, <2>5 DEF AesTypeOK
<1>11. KeyInv'
  BY <1>1, ActiveFacts DEF KeyInv, KeyOK, Nr, Nk
<1>12. IvInv'
  <2>1. ASSUME IvOK PROVE IvOK'
    <3>1. Iv \in IvTargets /\ Iv[1] \in BufferNames /\ Iv[1] # "plain"
      BY <2>1, TargetFacts DEF IvOK
    <3> QED  BY <1>1, <1>5, <2>1, <3>1 DEF IvOK
  <2> QED  BY <1>1, <2>1 DEF AesInv, IvInv, Encrypting, Decrypting
<1>13. MadeOK'
  BY <1>1, <1>7 DEF AesInv, MadeOK, EncActive
<1>14. EncInv'
  <2> SUFFICES ASSUME EncActive'
               PROVE  /\ EncMade' /\ EncPlain'
                      /\ Encrypting' /\ (call'.cbc => kept') => EncChain' /\ EncRound' /\ EncBlock'
    BY DEF EncInv
  <2>1. EncActive
    BY <1>1 DEF EncActive
  <2>2. EncMade /\ EncPlain /\ (Encrypting /\ (call.cbc => kept) => EncChain)
    BY <2>1 DEF AesInv, EncInv
  <2>3. EncMade'
    BY <1>1, <2>2 DEF EncMade
  <2>4. EncPlain'
    <3> SUFFICES ASSUME NEW b \in 1..MaxBlocks, b > i + 1
                 PROVE  mem'["plain"][b] = Filled(made.msg, init_data)[b]
      BY <1>1 DEF EncPlain
    <3>1. i \in Nat /\ b > i /\ b # i + 1
      BY <1>1, ActiveFacts
    <3> QED  BY <1>1, <1>6, <2>2, <3>1 DEF EncPlain
  <2>5. ASSUME Encrypting, call.cbc => kept
        PROVE  EncChain' /\ EncRound' /\ EncBlock'
    <3>1. EncChain'
      BY <1>1, <1>7, <2>2, <2>5 DEF EncChain
    <3>2. EncBlock'
      BY <1>1 DEF EncBlock
    <3>3. ASSUME More
          PROVE  state' = ref' /\ Reaches(Into(made, mem["cipher"], i + 1), keyed, 0, ref')
      <4>1. PICK f : f = Filled(made.msg, init_data)[i + 1]
        OBVIOUS
      <4>2. PICK g : g = IF call.cbc THEN prev ELSE ZeroBlock
        OBVIOUS
      <4>3. f \in Block /\ XorBlock(f, g) \in Block /\ MadeTyped(made)
        BY <1>8, <2>5, <3>3, <4>1, <4>2
      <4>4. in = f
        <5>1. call.src = "plain"
          BY <1>1, <2>5, ActiveFacts, CallFacts DEF Encrypting
        <5>2. i + 1 \in 1..MaxBlocks /\ i + 1 > i /\ at = "block"
          BY <1>1, ActiveFacts
        <5>3. mem["plain"][i + 1] = f
          BY <2>2, <4>1, <5>2 DEF EncPlain
        <5> QED  BY <3>3, <5>1, <5>3 DEF in
      <4>5. x = XorBlock(f, g)
        <5>1. x = Chained(f)
          BY <2>5, <4>4 DEF x
        <5>2. CASE call.cbc
          BY <1>1, <2>5, <3>3, <4>2, <4>3, <5>1, <5>2, ChainedFacts
        <5>3. CASE ~call.cbc
          BY <1>1, <4>2, <4>3, <5>1, <5>3, ChainedFacts, XorBlockFacts
        <5> QED  BY <5>2, <5>3
      <4>6. ref' = WithRoundKey(x, StandardKeys[keyed], 0)
        BY <1>1, <2>5, <3>3, <4>1, <4>2, <4>5
      <4>7. state' = ref'
        <5>1. 0 \in 0..Nr /\ state' = AddRoundKey(x, 0)
          BY <1>1, <1>2, <2>5, ActiveFacts
        <5> QED  BY <1>1, <1>4, <4>6, <5>1, ActiveFacts, AddRoundKeyFacts
      <4>8. Into(made, mem["cipher"], i + 1) = x
        <5>1. made.call = call /\ call.cbc \in BOOLEAN
          BY <1>1, <2>2, ActiveFacts, CallFacts DEF EncMade
        <5>2. i + 1 = 1 <=> i = 0
          BY <1>1, ActiveFacts
        <5>3. (i + 1) - 1 = i
          BY <1>1, ActiveFacts
        <5>4. ChainOf(made, mem["cipher"], i + 1) = g
          BY <2>2, <2>5, <4>2, <5>1, <5>2, <5>3 DEF ChainOf, EncChain
        <5> QED  BY <4>1, <4>5, <5>4 DEF Into
      <4> QED  BY <1>1, <1>4, <4>6, <4>7, <4>8, ActiveFacts, ReachStart
    <3>4. EncRound'
      <4>1. round' - 1 = 0 /\ (More' => More)
        BY <1>1, <2>5 DEF More
      <4> QED  BY <1>1, <1>7, <3>3, <4>1 DEF EncRound
    <3> QED  BY <3>1, <3>2, <3>4
  <2> QED  BY <1>1, <2>3, <2>4, <2>5 DEF Encrypting
<1>15. DecInv'
  <2> SUFFICES ASSUME Decrypting, whole PROVE DecMade' /\ DecText' /\ DecBack' /\ DecChain' /\ DecRound'
    BY <1>1 DEF DecInv, Decrypting
  <2>1. ~Encrypting /\ ~EncActive /\ call.src = "text"
    BY <1>1, ActiveFacts, CallFacts DEF Encrypting, Decrypting, EncActive
  <2>2. DecMade /\ DecText /\ DecBack /\ DecChain
    BY <1>1 DEF AesInv, DecInv
  <2>3. DecMade' /\ DecText' /\ DecBack' /\ DecChain'
    BY <1>1, <1>7, <2>2 DEF DecMade, DecText, DecBack, DecChain
  <2>4. ASSUME 16 * (i + 1) <= length
        PROVE  \E s : Reaches(Into(made, mem["cipher"], i + 1), keyed, Nr - 1, s) /\ state' = ShiftRows(SubBytes(s))
    <3>1. MadeTyped(made) /\ MadeBlocks(made, mem["cipher"], MaxBlocks)
      BY <2>1, <2>2 DEF AesInv, MadeOK, DecMade
    <3>2. i + 1 \in 1..MaxBlocks /\ i + 1 <= MaxBlocks /\ 16 * (i + 1) <= made.len
      <4>1. length \in Nat /\ made.len \in Nat /\ i \in Nat /\ i + 1 \in 1..MaxBlocks
        BY <1>1, <3>1, ActiveFacts DEF MadeTyped, CallTyped
      <4> QED  BY <2>2, <2>4, <4>1, BlocksFacts DEF DecMade
    <3>3. MadeBlock(made, mem["cipher"], i + 1)
      BY <2>2, <3>1, <3>2 DEF MadeBlocks, DecMade
    <3>4. PICK n \in Nat : n = Nr /\ n > 0 /\ n = Rounds(keyed)
      BY <1>1, ActiveFacts
    <3>5. PICK z : z = Into(made, mem["cipher"], i + 1)
      OBVIOUS
    <3>6. PICK k \in KeyPairs : k = keyed
      BY <1>1, ActiveFacts
    <3>7. PICK y : y = mem["cipher"][i + 1]
      OBVIOUS
    <3>8. Reaches(z, k, n, y)
      BY <2>2, <3>3, <3>4, <3>5, <3>6, <3>7 DEF MadeBlock, DecMade
    <3>9. PICK t \in Block : Reaches(z, k, n - 1, t) /\ y = AfterRound(t, StandardKeys[k], n, Rounds(k))
      BY <3>4, <3>8, ReachBack
    <3>10. y = WithRoundKey(ShiftRows(SubBytes(t)), StandardKeys[k], n)
      BY <3>4, <3>6, <3>9, AfterRoundFacts
    <3>11. PICK u \in Block : u = ShiftRows(SubBytes(t))
      BY SubBytesFacts, ShiftRowsFacts
    <3>12. More
      BY <1>1, <2>4, ActiveFacts DEF More, BLOCKLEN, CallTyped
    <3>13. x = y
      <4>1. mem["text"][i + 1] = y
        BY <2>2, <2>4, <3>2, <3>7 DEF DecText
      <4> QED  BY <2>1, <3>12, <4>1 DEF x, in
    <3>14. n \in 0..Nr /\ state' = AddRoundKey(y, n)
      BY <1>2, <2>1, <3>4, <3>13
    <3>15. state' = u
      BY <1>1, <3>6, <3>10, <3>11, <3>14, ActiveFacts, AddRoundKeyFacts
    <3> QED  BY <3>4, <3>5, <3>6, <3>9, <3>11, <3>15
  <2>5. DecRound'
    BY <1>1, <1>7, <2>1, <2>4 DEF DecRound
  <2> QED  BY <2>3, <2>5
<1>16. DoneInv' /\ MessageComesBack'
  BY <1>1 DEF DoneInv, MessageComesBack
<1> QED  BY <1>10, <1>11, <1>12, <1>13, <1>14, <1>15, <1>16 DEF AesInv

(* One round of Cipher or of InvCipher.                                    *)
LEMMA RoundKeeps ==
  ASSUME AesInv, Round
  PROVE  AesInv'
<1>1. /\ at = "round" /\ Active /\ Active' /\ at' = "round"
      /\ UNCHANGED << AES_type, RoundKey, Iv, mem, call, length, i, ret, calls, keyed, prev, kept, made, whole >>
  BY DEF Round, static, Active
<1>2. /\ StaticTyped /\ MemTyped /\ WorkTyped /\ CallTyped /\ KeyOK /\ keyed \in KeyPairs
      /\ state \in Block /\ ref \in Block
  BY <1>1, ActiveFacts DEF WorkTyped
<1>3. PICK n \in Nat : n = Nr /\ n > 0 /\ n = Rounds(keyed)
  BY <1>1, ActiveFacts
<1>4. PICK r \in Nat : r = round
  BY <1>2 DEF CallTyped
<1>5. MadeOK'
  BY <1>1 DEF AesInv, MadeOK, EncActive
<1>6. KeyInv' /\ IvInv' /\ DoneInv' /\ MessageComesBack'
  BY <1>1 DEF AesInv, KeyInv, KeyOK, Nr, Nk, IvInv, IvOK, Encrypting, Decrypting, DoneInv, MessageComesBack
<1>7. CASE Encrypting
  <2>1. /\ r < n /\ r > 0 /\ round' = r + 1 /\ ref' = AfterRound(ref, StandardKeys[keyed], r, n)
        /\ state' = AddRoundKey(MixColumns(ShiftRows(SubBytes(state))), r)
    BY <1>1, <1>2, <1>3, <1>4, <1>7 DEF Round, Encrypting, Decrypting, CallTyped
  <2>2. PICK t \in Block : t = MixColumns(ShiftRows(SubBytes(state)))
    BY <1>2, SubBytesFacts, ShiftRowsFacts, MixColumnsFacts
  <2>3. r \in 0..Nr /\ state' = AddRoundKey(t, r)
    BY <1>3, <2>1, <2>2
  <2>4. state' \in Block /\ state' = WithRoundKey(t, StandardKeys[keyed], r)
    BY <1>2, <2>3, AddRoundKeyFacts
  <2>5. ref' \in Block /\ (state = ref => state' = ref')
    BY <1>2, <1>3, <2>1, <2>2, <2>4, AfterRoundFacts
  <2>6. AesTypeOK'
    <3>1. StaticTyped' /\ MemTyped' /\ WorkTyped'
      BY <1>1, <1>2, <2>4, <2>5 DEF StaticTyped, MemTyped, WorkTyped
    <3>2. round' \in 1..Nr /\ round' \in Nat
      BY <1>3, <2>1
    <3>3. CallTyped'
      BY <1>1, <1>2, <1>7, <3>2 DEF CallTyped, Encrypting, Decrypting, Nr, Nk, Active
    <3> QED  BY <3>1, <3>3 DEF AesTypeOK
  <2>7. EncInv'
    <3>1. EncActive /\ EncMade /\ EncPlain
      BY <1>1, <1>7 DEF AesInv, EncInv, EncActive, Encrypting
    <3>2. EncMade' /\ EncPlain' /\ EncBlock' /\ (EncChain => EncChain')
      BY <1>1, <3>1 DEF EncMade, EncPlain, EncBlock, EncChain
    <3>3. ASSUME call.cbc => kept PROVE EncChain' /\ EncRound'
      <4>1. EncChain /\ EncRound
        BY <1>7, <3>1, <3>3 DEF AesInv, EncInv
      <4>2. ASSUME More PROVE state' = ref' /\ Reaches(Into(made, mem["cipher"], i + 1), keyed, r, ref')
        <5>1. PICK q \in Nat : q = r - 1 /\ q + 1 = r /\ q < n
          BY <2>1
        <5>2. state = ref /\ Reaches(Into(made, mem["cipher"], i + 1), keyed, q, ref)
          BY <1>1, <1>4, <4>1, <4>2, <5>1 DEF EncRound
        <5>3. Reaches(Into(made, mem["cipher"], i + 1), keyed, q + 1,
                        AfterRound(ref, StandardKeys[keyed], q + 1, Rounds(keyed)))
          BY <1>2, <1>3, <5>1, <5>2, ReachStep
        <5> QED  BY <1>3, <2>1, <2>5, <5>1, <5>2, <5>3
      <4>3. round' - 1 = r /\ (More' => More)
        BY <1>1, <2>1 DEF More
      <4> QED  BY <1>1, <3>2, <4>1, <4>2, <4>3 DEF EncRound
    <3> QED  BY <1>1, <3>2, <3>3 DEF EncInv
  <2>8. DecInv'
    BY <1>1, <1>7 DEF DecInv, Encrypting, Decrypting
  <2> QED  BY <1>5, <1>6, <2>6, <2>7, <2>8 DEF AesInv
<1>8. CASE ~Encrypting
  <2>1. /\ Decrypting /\ r > 0 /\ r < n /\ round' = r - 1 /\ ref' = ref
        /\ state' = InvMixColumns(AddRoundKey(InvSubBytes(InvShiftRows(state)), r))
    BY <1>1, <1>2, <1>3, <1>4, <1>8 DEF Round, Encrypting, Decrypting, CallTyped
  <2>2. PICK v \in Block : v = InvSubBytes(InvShiftRows(state))
    BY <1>2, SubBytesFacts, ShiftRowsFacts
  <2>3. r \in 0..Nr
    BY <1>3, <2>1
  <2>4. state' \in Block /\ state' = InvMixColumns(AddRoundKey(v, r))
    BY <1>2, <2>1, <2>2, <2>3, AddRoundKeyFacts, MixColumnsFacts
  <2>5. AesTypeOK'
    <3>1. StaticTyped' /\ MemTyped' /\ WorkTyped'
      BY <1>1, <1>2, <2>1, <2>4 DEF StaticTyped, MemTyped, WorkTyped
    <3>2. round' \in 0..Nr - 1 /\ round' \in Nat
      BY <1>3, <2>1
    <3>3. CallTyped'
      BY <1>1, <1>2, <1>8, <3>2 DEF CallTyped, Encrypting, Decrypting, Nr, Nk, Active
    <3> QED  BY <3>1, <3>3 DEF AesTypeOK
  <2>6. call.fn = "decrypt" /\ ~EncActive /\ ~EncActive'
    BY <1>1, <2>1 DEF Decrypting, EncActive
  <2>7. EncInv'
    BY <2>6 DEF EncInv
  <2>8. DecInv'
    <3> SUFFICES ASSUME whole PROVE DecMade' /\ DecText' /\ DecBack' /\ DecChain' /\ DecRound'
      BY <1>1 DEF DecInv
    <3>1. DecMade /\ DecText /\ DecBack /\ DecChain /\ DecRound
      BY <1>1, <2>1 DEF AesInv, DecInv
    <3>2. DecMade' /\ DecText' /\ DecBack' /\ DecChain'
      BY <1>1, <3>1 DEF DecMade, DecText, DecBack, DecChain
    <3>3. ASSUME 16 * (i + 1) <= length
          PROVE  \E s : Reaches(Into(made, mem["cipher"], i + 1), keyed, r - 1, s) /\ state' = ShiftRows(SubBytes(s))
      <4>1. PICK s : Reaches(Into(made, mem["cipher"], i + 1), keyed, r, s) /\ state = ShiftRows(SubBytes(s))
        BY <1>1, <1>4, <3>1, <3>3 DEF DecRound
      <4>2. PICK t \in Block : /\ Reaches(Into(made, mem["cipher"], i + 1), keyed, r - 1, t)
                               /\ s = AfterRound(t, StandardKeys[keyed], r, Rounds(keyed))
        BY <1>2, <2>1, <4>1, ReachBack
      <4>3. s \in Block
        BY <1>2, <4>1, ReachBack
      <4>4. PICK u \in Block : u = ShiftRows(SubBytes(t))
        BY SubBytesFacts, ShiftRowsFacts
      <4>5. s = WithRoundKey(MixColumns(u), StandardKeys[keyed], r)
        BY <1>2, <1>3, <2>1, <4>2, <4>4, AfterRoundFacts
      <4>6. v = s
        <5>1. PICK b \in Block : b = SubBytes(s)
          BY <4>3, SubBytesFacts
        <5>2. InvShiftRows(state) = b
          BY <4>1, <5>1, ShiftRowsFacts
        <5>3. InvSubBytes(b) = s
          BY <4>3, <5>1, SubBytesFacts
        <5> QED  BY <2>2, <5>2, <5>3
      <4>7. PICK m \in Block : m = MixColumns(u)
        BY MixColumnsFacts
      <4>8. AddRoundKey(v, r) = m
        BY <1>2, <2>3, <4>5, <4>6, <4>7, AddRoundKeyFacts
      <4>9. state' = u
        BY <2>4, <4>7, <4>8, MixColumnsFacts
      <4> QED  BY <4>2, <4>4, <4>9
    <3>4. DecRound'
      BY <1>1, <2>1, <3>3 DEF DecRound
    <3> QED  BY <3>2, <3>4
  <2> QED  BY <1>5, <1>6, <2>5, <2>7, <2>8 DEF AesInv
<1> QED  BY <1>7, <1>8

(* What a block leaves behind, whoever works on it.                        *)
LEMMA NextBlockFacts ==
  ASSUME AesInv, at = "round", NEW new \in Block, NEW chain, NextBlock(new, chain)
  PROVE  /\ MemTyped' /\ SetsBlock(call.dst, i + 1, new)
         /\ UNCHANGED << AES_type, RoundKey, call, length, round, ret, calls, keyed, kept, made, whole >>
         /\ i' = i + 1
         /\ at' = (IF More THEN "block" ELSE "end")
         /\ Iv' = IF call.cbc /\ More THEN << IF Encrypting THEN call.dst ELSE call.src, i + 1 >> ELSE Iv
         /\ prev' = IF call.cbc /\ More THEN chain ELSE prev
         /\ StaticTyped' /\ KeyInv' /\ (chain \in Block => prev' \in Block) /\ CallTyped'
<1>1. Active
  BY DEF Active
<1>2. /\ UNCHANGED << AES_type, RoundKey, call, length, round, ret, calls, keyed, kept, made, whole >>
      /\ mem' = [mem EXCEPT ![call.dst][i + 1] = new]
      /\ i' = i + 1
      /\ at' = (IF More THEN "block" ELSE "end")
      /\ Iv' = IF call.cbc /\ More THEN << IF Encrypting THEN call.dst ELSE call.src, i + 1 >> ELSE Iv
      /\ prev' = IF call.cbc /\ More THEN chain ELSE prev
  BY DEF NextBlock
<1>3. MemTyped' /\ SetsBlock(call.dst, i + 1, new)
  <2>1. MemTyped /\ call.dst \in Buffers /\ i + 1 \in 1..MaxBlocks
    BY <1>1, ActiveFacts
  <2> QED  BY <1>2, <2>1, SetsOne
<1>4. StaticTyped' /\ KeyInv'
  BY <1>1, <1>2, ActiveFacts DEF StaticTyped, KeyInv, KeyOK, Nr, Nk
<1>5. chain \in Block => prev' \in Block
  BY <1>1, <1>2, ActiveFacts DEF WorkTyped
<1>6. CallTyped'
  <2>1. CallTyped
    BY <1>1, ActiveFacts
  <2>2. Active' => 16 * i' < length' + 16
    BY <1>2, <2>1 DEF Active, More, BLOCKLEN, CallTyped
  <2>3. i' \in Nat /\ at' \in {"block", "end"}
    BY <1>2, <2>1 DEF CallTyped
  <2> QED  BY <1>2, <2>1, <2>2, <2>3 DEF CallTyped
<1> QED  BY <1>2, <1>3, <1>4, <1>5, <1>6

(* The last round of Cipher writes the block of the standard.              *)
LEMMA EncryptLastKeeps ==
  ASSUME AesInv, EncryptLast
  PROVE  AesInv'
<1>1. /\ at = "round" /\ Active /\ Encrypting /\ round = Nr /\ EncActive
      /\ state' = AddRoundKey(ShiftRows(SubBytes(state)), Nr)
      /\ ref' = AfterRound(ref, StandardKeys[keyed], Nr, Nr)
      /\ NextBlock(state', ref')
  BY DEF EncryptLast, Active, Encrypting, EncActive
<1>2. /\ StaticTyped /\ MemTyped /\ WorkTyped /\ CallTyped /\ KeyOK /\ keyed \in KeyPairs
      /\ state \in Block /\ ref \in Block
  BY <1>1, ActiveFacts DEF WorkTyped
<1>3. PICK n \in Nat : n = Nr /\ n > 0 /\ n = Rounds(keyed)
  BY <1>1, ActiveFacts
<1>4. state' \in Block /\ ref' \in Block /\ (state = ref => state' = ref')
  <2>1. PICK t \in Block : t = ShiftRows(SubBytes(state))
    BY <1>2, SubBytesFacts, ShiftRowsFacts
  <2>2. n \in 0..Nr /\ state' = AddRoundKey(t, n)
    BY <1>1, <1>3, <2>1
  <2>3. state' \in Block /\ state' = WithRoundKey(t, StandardKeys[keyed], n)
    BY <1>2, <2>2, AddRoundKeyFacts
  <2>4. ref' = AfterRound(ref, StandardKeys[keyed], n, Rounds(keyed))
    BY <1>1, <1>3
  <2> QED  BY <1>2, <1>3, <2>1, <2>3, <2>4, AfterRoundFacts
<1>5. /\ MemTyped' /\ SetsBlock("cipher", i + 1, state')
      /\ UNCHANGED << AES_type, RoundKey, call, length, round, ret, calls, keyed, kept, made, whole >>
      /\ i' = i + 1
      /\ at' = (IF More THEN "block" ELSE "end")
      /\ Iv' = IF call.cbc /\ More THEN << "cipher", i + 1 >> ELSE Iv
      /\ prev' = IF call.cbc /\ More THEN ref' ELSE prev
      /\ StaticTyped' /\ KeyInv' /\ prev' \in Block /\ CallTyped'
  <2>1. call.dst = "cipher"
    BY <1>1, ActiveFacts, CallFacts DEF Encrypting
  <2> QED  BY <1>1, <1>4, <2>1, NextBlockFacts
<1>6. AesTypeOK'
  BY <1>2, <1>4, <1>5 DEF AesTypeOK, WorkTyped
<1>7. i + 1 \in 1..MaxBlocks /\ i \in Nat /\ call.cbc \in BOOLEAN /\ call.src = "plain" /\ call.dst = "cipher"
  BY <1>1, ActiveFacts, CallFacts DEF Encrypting
<1>8. /\ EncMade /\ EncPlain /\ MadeTyped(made) /\ MadeBlocks(made, mem["cipher"], i)
      /\ (call.cbc => kept) => EncChain /\ EncRound
  BY <1>1 DEF AesInv, EncInv, MadeOK
<1>9. /\ mem'["cipher"][i + 1] = state'
      /\ \A b \in 1..MaxBlocks : b <= i => mem'["cipher"][b] = mem["cipher"][b]
      /\ mem'["plain"] = mem["plain"] /\ mem'["text"] = mem["text"] /\ mem'["iv"] = mem["iv"]
  BY <1>5, <1>7 DEF SetsBlock, BufferNames
<1>10. (call.cbc => kept) /\ More => state' = ref'
  BY <1>1, <1>4, <1>8 DEF EncRound
<1>11. IvInv'
  <2>1. CASE call.cbc /\ More
    <3>1. Iv' = << "cipher", i + 1 >> /\ prev' = ref'
      BY <1>5, <2>1
    <3>2. IvOK'
      <4>1. Iv' \in IvTargets
        BY <1>7, <3>1 DEF IvTargets
      <4>2. kept' => mem'[Iv'[1]][Iv'[2]] = prev'
        BY <1>5, <1>9, <1>10, <2>1, <3>1
      <4> QED  BY <4>1, <4>2 DEF IvOK
    <3> QED  BY <1>1, <1>5, <2>1, <3>1, <3>2 DEF IvInv, Encrypting, Decrypting
  <2>2. CASE call.cbc /\ ~More
    <3>1. at' = "end" /\ Iv' = Iv /\ prev' = prev /\ ~Active'
      BY <1>5, <2>2 DEF Active
    <3>2. i > 0
      BY <1>1, <1>2, <2>2 DEF CallTyped, More, BLOCKLEN
    <3>3. Iv = << "cipher", i >> /\ IvOK
      BY <1>1, <2>2, <3>2 DEF AesInv, IvInv
    <3>4. i \in 1..MaxBlocks /\ i <= i
      BY <1>7, <3>2, BlocksFacts
    <3>5. IvOK'
      BY <1>5, <1>9, <3>1, <3>3, <3>4 DEF IvOK
    <3> QED  BY <3>1, <3>5 DEF IvInv
  <2>3. CASE ~call.cbc
    <3>1. Iv' = Iv /\ prev' = prev
      BY <1>5, <2>3
    <3>2. ASSUME Iv # NULL PROVE IvOK' /\ (kept => Iv[1] \notin {call.src, call.dst})
      <4>1. IvOK /\ (kept => Iv[1] \notin {call.src, call.dst})
        BY <1>1, <2>3, <3>2 DEF AesInv, IvInv
      <4>2. Iv \in IvTargets /\ Iv[1] \in BufferNames
        BY <4>1, TargetFacts DEF IvOK
      <4>3. kept => mem'[Iv[1]] = mem[Iv[1]]
        BY <1>5, <1>7, <4>1, <4>2 DEF SetsBlock
      <4> QED  BY <1>5, <3>1, <4>1, <4>2, <4>3 DEF IvOK
    <3> QED  BY <1>5, <2>3, <3>1, <3>2 DEF IvInv
  <2> QED  BY <1>7, <2>1, <2>2, <2>3
<1>12. MadeOK'
  <2>1. MadeBlocks(made, mem'["cipher"], i)
    BY <1>7, <1>8, <1>9, MadeSame
  <2>2. CASE More
    <3>1. EncActive' /\ i' = i + 1
      BY <1>1, <1>5, <2>2 DEF EncActive, Active
    <3>2. ASSUME made.call.cbc => made.kept, 16 * (i + 1) <= made.len
          PROVE  MadeBlock(made, mem'["cipher"], i + 1)
      <4>1. call.cbc => kept
        BY <1>8, <3>2 DEF EncMade
      <4>2. state = ref /\ Reaches(Into(made, mem["cipher"], i + 1), keyed, n - 1, ref)
        BY <1>1, <1>3, <1>8, <2>2, <4>1 DEF EncRound
      <4>3. PICK q \in Nat : q = n - 1 /\ q + 1 = n /\ q < n
        BY <1>3
      <4>4. ref' = AfterRound(ref, StandardKeys[keyed], q + 1, Rounds(keyed))
        BY <1>1, <1>3, <4>3
      <4>5. Reaches(Into(made, mem["cipher"], i + 1), keyed, q + 1, ref')
        BY <1>2, <1>3, <4>2, <4>3, <4>4, ReachStep
      <4>6. ChainOf(made, mem'["cipher"], i + 1) = ChainOf(made, mem["cipher"], i + 1)
        <5>1. i + 1 # 1 => (i + 1) - 1 \in 1..MaxBlocks /\ (i + 1) - 1 <= i
          BY <1>7, BlocksFacts
        <5> QED  BY <1>9, <5>1 DEF ChainOf
      <4>7. Into(made, mem'["cipher"], i + 1) = Into(made, mem["cipher"], i + 1)
        BY <4>6 DEF Into
      <4> QED  BY <1>3, <1>8, <1>9, <1>10, <2>2, <4>1, <4>3, <4>5, <4>7 DEF MadeBlock, EncMade
    <3>3. MadeBlocks(made, mem'["cipher"], i + 1)
      <4> SUFFICES ASSUME made.call.cbc => made.kept, NEW b \in 1..MaxBlocks, 16 * b <= made.len, b <= i + 1
                   PROVE  MadeBlock(made, mem'["cipher"], b)
        BY DEF MadeBlocks
      <4>1. CASE b = i + 1
        BY <3>2, <4>1
      <4>2. CASE b # i + 1
        <5>1. b <= i
          BY <1>7, <4>2
        <5> QED  BY <2>1, <5>1 DEF MadeBlocks
      <4> QED  BY <4>1, <4>2
    <3> QED  BY <1>5, <1>8, <3>1, <3>3 DEF MadeOK
  <2>3. CASE ~More
    <3>1. ~EncActive'
      BY <1>5, <2>3 DEF EncActive, Active
    <3>2. MadeBlocks(made, mem'["cipher"], MaxBlocks)
      <4> SUFFICES ASSUME made.call.cbc => made.kept, NEW b \in 1..MaxBlocks, 16 * b <= made.len
                   PROVE  MadeBlock(made, mem'["cipher"], b)
        BY DEF MadeBlocks
      <4>1. b <= i
        BY <1>2, <1>7, <1>8, <2>3 DEF More, BLOCKLEN, EncMade, CallTyped
      <4> QED  BY <2>1, <4>1 DEF MadeBlocks
    <3> QED  BY <1>5, <1>8, <3>1, <3>2 DEF MadeOK
  <2> QED  BY <2>2, <2>3
<1>13. EncInv'
  <2> SUFFICES ASSUME EncActive'
               PROVE  /\ EncMade' /\ EncPlain'
                      /\ Encrypting' /\ (call'.cbc => kept') => EncChain' /\ EncRound' /\ EncBlock'
    BY DEF EncInv
  <2>1. More /\ at' = "block"
    BY <1>5 DEF EncActive, Active
  <2>2. EncMade'
    BY <1>5, <1>8 DEF EncMade
  <2>3. EncPlain'
    <3> SUFFICES ASSUME NEW b \in 1..MaxBlocks, b > i + 1
                 PROVE  mem'["plain"][b] = Filled(made.msg, init_data)[b]
      BY <1>5 DEF EncPlain
    <3>1. b > i
      BY <1>7
    <3> QED  BY <1>8, <1>9, <3>1 DEF EncPlain
  <2>4. ASSUME call.cbc => kept PROVE EncChain' /\ EncRound' /\ EncBlock'
    <3>1. i + 1 # 0
      BY <1>7
    <3> QED  BY <1>5, <1>9, <1>10, <2>1, <2>4, <3>1 DEF EncChain, EncRound, EncBlock
  <2> QED  BY <1>5, <2>2, <2>3, <2>4
<1>14. DecInv' /\ DoneInv' /\ MessageComesBack'
  BY <1>1, <1>5 DEF DecInv, DoneInv, MessageComesBack, Encrypting, Decrypting
<1> QED  BY <1>5, <1>6, <1>11, <1>12, <1>13, <1>14 DEF AesInv

(* The last round of InvCipher is back at the block before Cipher, and the *)
(* chain undone gives the message.                                         *)
LEMMA DecryptLastKeeps ==
  ASSUME AesInv, DecryptLast
  PROVE  AesInv'
<1>1. /\ at = "round" /\ Active /\ Decrypting /\ round = 0 /\ ref' = ref
      /\ state' = Chained(AddRoundKey(InvSubBytes(InvShiftRows(state)), 0))
      /\ NextBlock(state', mem[call.src][i + 1])
  BY DEF DecryptLast, Active
<1>2. /\ StaticTyped /\ MemTyped /\ WorkTyped /\ CallTyped /\ KeyOK /\ keyed \in KeyPairs
      /\ state \in Block /\ ref \in Block /\ mem[call.src][i + 1] \in Block
  BY <1>1, ActiveFacts DEF WorkTyped
<1>3. /\ i + 1 \in 1..MaxBlocks /\ i \in Nat /\ call.cbc \in BOOLEAN /\ call.src = "text" /\ call.dst = "back"
      /\ call.fn = "decrypt"
  BY <1>1, ActiveFacts, CallFacts DEF Decrypting
<1>4. PICK v \in Block : v = InvSubBytes(InvShiftRows(state))
  BY <1>2, SubBytesFacts, ShiftRowsFacts
<1>5. 0 \in 0..Nr
  BY <1>1, ActiveFacts
<1>6. PICK a \in Block : a = AddRoundKey(v, 0)
  BY <1>2, <1>5, AddRoundKeyFacts
<1>7. state' = Chained(a) /\ state' \in Block
  BY <1>1, <1>4, <1>6, ChainedFacts
<1>8. /\ MemTyped' /\ SetsBlock("back", i + 1, state')
      /\ UNCHANGED << AES_type, RoundKey, call, length, round, ret, calls, keyed, kept, made, whole >>
      /\ i' = i + 1
      /\ at' = (IF More THEN "block" ELSE "end")
      /\ Iv' = IF call.cbc /\ More THEN << "text", i + 1 >> ELSE Iv
      /\ prev' = IF call.cbc /\ More THEN mem["text"][i + 1] ELSE prev
      /\ StaticTyped' /\ KeyInv' /\ prev' \in Block /\ CallTyped'
  <2>1. ~Encrypting
    BY <1>3 DEF Encrypting
  <2> QED  BY <1>1, <1>2, <1>3, <1>7, <2>1, NextBlockFacts
<1>9. AesTypeOK'
  BY <1>1, <1>2, <1>7, <1>8 DEF AesTypeOK, WorkTyped
<1>10. /\ mem'["back"][i + 1] = state'
       /\ \A b \in 1..MaxBlocks : b # i + 1 => mem'["back"][b] = mem["back"][b]
       /\ mem'["plain"] = mem["plain"] /\ mem'["text"] = mem["text"] /\ mem'["cipher"] = mem["cipher"]
       /\ \A c \in BufferNames : c # "back" => mem'[c] = mem[c]
  BY <1>8 DEF SetsBlock, BufferNames
<1>11. IvInv'
  <2>1. CASE call.cbc /\ More
    <3>1. Iv' = << "text", i + 1 >> /\ prev' = mem["text"][i + 1]
      BY <1>8, <2>1
    <3>2. IvOK'
      BY <1>3, <1>10, <3>1 DEF IvOK, IvTargets
    <3> QED  BY <1>1, <1>3, <1>8, <2>1, <3>1, <3>2 DEF IvInv, Encrypting, Decrypting
  <2>2. CASE ~(call.cbc /\ More)
    <3>1. Iv' = Iv /\ prev' = prev
      BY <1>8, <2>2
    <3>2. ASSUME IvOK PROVE IvOK'
      <4>1. Iv \in IvTargets /\ Iv[1] \in BufferNames /\ Iv[1] # "back"
        BY <3>2, TargetFacts DEF IvOK
      <4> QED  BY <1>8, <1>10, <3>1, <3>2, <4>1 DEF IvOK
    <3>3. call.cbc => ~Active'
      BY <1>8, <2>2 DEF Active
    <3>4. IvInv
      BY DEF AesInv
    <3> QED  BY <1>1, <1>8, <3>1, <3>2, <3>3, <3>4 DEF IvInv
  <2> QED  BY <2>1, <2>2
<1>12. ~EncActive /\ ~EncActive'
  BY <1>3, <1>8 DEF EncActive
<1>13. MadeOK' /\ EncInv'
  BY <1>8, <1>10, <1>12 DEF AesInv, MadeOK, EncInv
<1>14. DecInv'
  <2> SUFFICES ASSUME whole PROVE DecMade' /\ DecText' /\ DecBack' /\ DecChain' /\ DecRound'
    BY <1>8 DEF DecInv
  <2>1. DecMade /\ DecText /\ DecBack /\ DecChain /\ DecRound
    BY <1>1 DEF AesInv, DecInv
  <2>2. DecMade' /\ DecText'
    BY <1>8, <1>10, <2>1 DEF DecMade, DecText
  <2>3. length \in Nat
    BY <1>2 DEF CallTyped
  <2>4. ASSUME 16 * (i + 1) <= length PROVE state' = Filled(made.msg, init_data)[i + 1]
    <3>1. PICK z : z = Into(made, mem["cipher"], i + 1)
      OBVIOUS
    <3>2. PICK s : Reaches(z, keyed, 0, s) /\ state = ShiftRows(SubBytes(s))
      BY <1>1, <2>1, <2>4, <3>1 DEF DecRound
    <3>3. s \in Block /\ s = WithRoundKey(z, StandardKeys[keyed], 0)
      BY <1>2, <3>2, ReachBack
    <3>4. v = s
      <4>1. PICK b \in Block : b = SubBytes(s)
        BY <3>3, SubBytesFacts
      <4>2. InvShiftRows(state) = b
        BY <3>2, <4>1, ShiftRowsFacts
      <4>3. InvSubBytes(b) = s
        BY <3>3, <4>1, SubBytesFacts
      <4> QED  BY <1>4, <4>2, <4>3
    <3>5. MadeTyped(made)
      BY <1>12, <2>1 DEF AesInv, MadeOK, DecMade
    <3>6. PICK f : f = Filled(made.msg, init_data)[i + 1]
      OBVIOUS
    <3>7. PICK g : g = ChainOf(made, mem["cipher"], i + 1)
      OBVIOUS
    <3>8. z \in Block /\ f \in Block /\ g \in Block /\ z = XorBlock(f, g)
      <4>1. PICK cipher \in BufferSet : cipher = mem["cipher"]
        BY <1>2 DEF MemTyped, Buffers
      <4>2. Into(made, cipher, i + 1) \in Block /\ ChainOf(made, cipher, i + 1) \in Block
            /\ Filled(made.msg, init_data)[i + 1] \in Block
        BY <1>3, <3>5, IntoTyped
      <4> QED  BY <3>1, <3>6, <3>7, <4>1, <4>2 DEF Into
    <3>9. a = z
      BY <1>2, <1>5, <1>6, <3>3, <3>4, <3>8, AddRoundKeyFacts
    <3>10. More
      BY <1>3, <2>3, <2>4 DEF More, BLOCKLEN
    <3>11. CASE call.cbc
      <4>1. kept /\ made.call.cbc = call.cbc
        BY <2>1, <3>11 DEF DecMade
      <4>2. state' = XorBlock(z, prev)
        BY <1>1, <1>7, <3>9, <3>8, <3>10, <3>11, <4>1, ChainedFacts
      <4>3. prev = g
        <5>1. prev = IF i = 0 THEN made.start ELSE mem["text"][i]
          BY <1>1, <2>1, <3>11 DEF DecChain
        <5>2. i # 0 => i \in 1..MaxBlocks /\ 16 * i <= length
          BY <1>3, <2>3, <2>4, BlocksFacts
        <5>3. i # 0 => mem["text"][i] = mem["cipher"][i]
          BY <2>1, <5>2 DEF DecText
        <5>4. (i + 1 = 1 <=> i = 0) /\ (i + 1) - 1 = i
          BY <1>3
        <5> QED  BY <3>7, <3>11, <4>1, <5>1, <5>3, <5>4 DEF ChainOf
      <4> QED  BY <3>6, <3>8, <4>2, <4>3, XorBlockFacts
    <3>12. CASE ~call.cbc
      <4>1. state' = z
        BY <1>1, <1>7, <3>9, <3>8, <3>12, ChainedFacts
      <4>2. g = ZeroBlock
        BY <2>1, <3>7, <3>12 DEF ChainOf, DecMade
      <4> QED  BY <3>6, <3>8, <4>1, <4>2, XorBlockFacts
    <3> QED  BY <1>3, <3>11, <3>12
  <2>5. DecBack'
    <3> SUFFICES ASSUME NEW b \in 1..MaxBlocks, 16 * b <= length, Active' => b <= i + 1
                 PROVE  mem'["back"][b] = Filled(made.msg, init_data)[b]
      BY <1>8 DEF DecBack
    <3>1. CASE b = i + 1
      BY <1>10, <2>4, <3>1
    <3>2. CASE b # i + 1
      <4>1. b <= i
        <5>1. CASE More
          <6>1. Active'
            BY <1>8, <5>1 DEF Active
          <6> QED  BY <1>3, <3>2, <6>1
        <5>2. CASE ~More
          BY <1>3, <2>3, <5>2 DEF More, BLOCKLEN
        <5> QED  BY <5>1, <5>2
      <4> QED  BY <1>10, <2>1, <3>2, <4>1 DEF DecBack
    <3> QED  BY <3>1, <3>2
  <2>6. DecChain'
    <3>1. Active' /\ call.cbc => prev' = mem["text"][i + 1]
      BY <1>8 DEF Active
    <3>2. i + 1 # 0
      BY <1>3
    <3> QED  BY <1>8, <1>10, <3>1, <3>2 DEF DecChain
  <2>7. DecRound'
    BY <1>8 DEF DecRound
  <2> QED  BY <2>2, <2>5, <2>6, <2>7
<1>15. DoneInv' /\ MessageComesBack'
  BY <1>8 DEF DoneInv, MessageComesBack
<1> QED  BY <1>8, <1>9, <1>11, <1>13, <1>14, <1>15 DEF AesInv

(* Where the fill of a text begins.                                        *)
LEMMA KeptFacts ==
  ASSUME NEW buf, NEW n \in Nat
  PROVE  /\ Kept(buf, n) \in 0..n
         /\ \A j \in (Kept(buf, n) + 1)..n : ByteAt(buf, j) = init_data
         /\ Kept(buf, n) > 0 => ByteAt(buf, Kept(buf, n)) # init_data
<1> DEFINE P(k) == /\ \A j \in (k + 1)..n : ByteAt(buf, j) = init_data
                   /\ k > 0 => ByteAt(buf, k) # init_data
           T == {k \in Nat : k <= n /\ \A j \in (k + 1)..n : ByteAt(buf, j) = init_data}
<1>1. n \in T
  OBVIOUS
<1>2. T \in SUBSET Nat /\ T # {}
  BY <1>1
<1>3. PICK m \in T : \A k \in T : m <= k
  <2> HIDE DEF T
  <2> QED  BY <1>2, LeastNat
<1>4. m \in Nat /\ m <= n /\ \A j \in (m + 1)..n : ByteAt(buf, j) = init_data
  OBVIOUS
<1>5. ASSUME m > 0, ByteAt(buf, m) = init_data PROVE FALSE
  <2>1. m - 1 \in Nat /\ m - 1 <= n /\ ~(m <= m - 1)
    BY <1>4, <1>5
  <2>2. ASSUME NEW j \in ((m - 1) + 1)..n PROVE ByteAt(buf, j) = init_data
    <3>1. j = m \/ j \in (m + 1)..n
      BY <1>4
    <3> QED  BY <1>4, <1>5, <3>1
  <2>3. m - 1 \in T
    BY <2>1, <2>2
  <2> QED  BY <1>3, <2>1, <2>3
<1>6. P(m) /\ m \in 0..n
  BY <1>4, <1>5
<1>7. Kept(buf, n) = CHOOSE k \in 0..n : P(k)
  BY DEF Kept
<1> HIDE DEF P
<1>8. Kept(buf, n) \in 0..n /\ P(Kept(buf, n))
  BY <1>6, <1>7
<1> QED  BY <1>8 DEF P

(* A buffer with the blocks of a message gives the message back.           *)
LEMMA MessageKept ==
  ASSUME NEW buf \in BufferSet, NEW m \in Seq(Octet), NEW q \in Nat, q <= MaxBlocks, Len(m) <= 16 * q,
         \A b \in 1..MaxBlocks : b <= q => buf[b] = Filled(m, init_data)[b],
         m = << >> \/ m[Len(m)] # init_data
  PROVE  /\ Kept(buf, 16 * q) = Len(m)
         /\ Text(WithNul(buf, Kept(buf, 16 * q) + 2), Len(m)) = m
<1>1. PICK l \in Nat : l = Len(m) /\ l <= 16 * q
  OBVIOUS
<1>2. init_data \in Octet
  BY FillAssumption DEF Octet
<1>3. Filled(m, init_data) \in BufferSet
  BY <1>2, FilledFacts
<1>4. ASSUME NEW k \in Nat, k > 0, k <= 16 * q
      PROVE  ByteAt(buf, k) = IF k <= l THEN m[k] ELSE init_data
  <2>1. MaxBlocks \in Nat /\ k <= 16 * MaxBlocks
    BY <1>4, BlocksFacts
  <2>2. PICK b \in 1..MaxBlocks, x \in 1..4, r \in 1..4 : k = 16 * (b - 1) + Place(x, r)
    BY <1>4, <2>1, ByteIndex
  <2>3. b <= q
    BY <1>4, <2>1, <2>2 DEF Place
  <2>4. buf[b] = Filled(m, init_data)[b]
    BY <2>3
  <2>5. ByteAt(buf, 16 * (b - 1) + Place(x, r)) = buf[b][x][r]
    BY ByteAtIs DEF BufferSet
  <2>6. ByteAt(Filled(m, init_data), 16 * (b - 1) + Place(x, r)) = Filled(m, init_data)[b][x][r]
    <3>1. PICK f \in BufferSet : f = Filled(m, init_data)
      BY <1>3
    <3>2. ByteAt(f, 16 * (b - 1) + Place(x, r)) = f[b][x][r]
      BY ByteAtIs DEF BufferSet
    <3> QED  BY <3>1, <3>2
  <2>7. ByteAt(Filled(m, init_data), k) = IF k <= Len(m) THEN m[k] ELSE init_data
    BY <1>2, <1>4, <2>1, FilledByte
  <2> QED  BY <1>1, <2>2, <2>4, <2>5, <2>6, <2>7
<1>5. PICK n \in Nat : n = 16 * q
  OBVIOUS
<1>6. PICK z : z = Kept(buf, n)
  OBVIOUS
<1>7. z \in 0..n /\ (\A j \in (z + 1)..n : ByteAt(buf, j) = init_data) /\ (z > 0 => ByteAt(buf, z) # init_data)
  BY <1>6, KeptFacts
<1>8. ~(z < l)
  <2> SUFFICES ASSUME z < l PROVE FALSE
    OBVIOUS
  <2>1. l \in (z + 1)..n /\ l > 0 /\ l <= 16 * q
    BY <1>1, <1>5, <1>7
  <2>2. ByteAt(buf, l) = init_data
    BY <1>7, <2>1
  <2>3. ByteAt(buf, l) = m[l]
    BY <1>4, <2>1
  <2>4. m # << >>
    BY <1>1, <2>1
  <2> QED  BY <1>1, <2>2, <2>3, <2>4
<1>9. ~(z > l)
  <2> SUFFICES ASSUME z > l PROVE FALSE
    OBVIOUS
  <2>1. z \in Nat /\ z > 0 /\ z <= 16 * q /\ ~(z <= l)
    BY <1>1, <1>5, <1>7
  <2>2. ByteAt(buf, z) = init_data
    BY <1>4, <2>1
  <2> QED  BY <1>7, <2>1, <2>2
<1>10. z = l
  BY <1>1, <1>7, <1>8, <1>9
<1>11. PICK new : new = WithNul(buf, l + 2)
  OBVIOUS
<1>12. new \in BufferSet /\ \A k \in Nat : k > 0 /\ k <= 16 * MaxBlocks /\ k # l + 2 => ByteAt(new, k) = ByteAt(buf, k)
  <2>1. l + 2 \in Nat /\ l + 2 > 0
    OBVIOUS
  <2> QED  BY <1>11, <2>1, WithNulFacts
<1>13. Text(new, l) = [k \in 1..l |-> ByteAt(new, k)]
  BY DEF Text
<1>14. ASSUME NEW k \in 1..l PROVE ByteAt(new, k) = m[k]
  <2>1. k \in Nat /\ k > 0 /\ k <= l /\ k <= 16 * q /\ k <= 16 * MaxBlocks /\ k # l + 2
    BY <1>1, BlocksFacts
  <2> QED  BY <1>4, <1>12, <2>1
<1>15. m = [k \in 1..l |-> m[k]]
  BY <1>1
<1>16. Text(new, l) = m
  BY <1>13, <1>14, <1>15
<1> QED  BY <1>1, <1>5, <1>6, <1>10, <1>11, <1>16

(* The call returns its length: with padding, that of the message.         *)
LEMMA EndKeeps ==
  ASSUME AesInv, End
  PROVE  AesInv'
<1>1. /\ at = "end" \/ (at = "block" /\ ~More /\ ~Extra)
      /\ at' = "done" /\ ~Active'
      /\ UNCHANGED << AES_type, RoundKey, Iv, call, length, i, state, round, calls >>
      /\ UNCHANGED << keyed, prev, ref, kept, made, whole >>
  BY DEF End, static, work, ghosts, Active
<1>2. StaticTyped /\ MemTyped /\ WorkTyped /\ CallTyped
  BY DEF AesInv, AesTypeOK
<1>3. length \in Nat /\ i \in Nat /\ length <= Limit
  BY <1>2 DEF CallTyped
<1>4. at = "block" => 16 * i >= length
  BY <1>1, <1>3 DEF More, BLOCKLEN
<1>5. CASE Decrypting /\ call.pad
  <2>1. PICK buf \in BufferSet : buf = mem["back"]
    BY <1>2 DEF MemTyped, Buffers
  <2>2. PICK z \in Nat : z = Kept(buf, length)
    BY <1>3, KeptFacts
  <2>3. ret' = z /\ mem' = [mem EXCEPT !["back"] = WithNul(buf, z + 2)]
    BY <1>5, <2>1, <2>2 DEF End
  <2>4. WithNul(buf, z + 2) \in BufferSet
    <3>1. z + 2 \in Nat /\ z + 2 > 0
      OBVIOUS
    <3> QED  BY <3>1, WithNulFacts
  <2>5. MemTyped' /\ Sets("back", WithNul(buf, z + 2))
    <3>1. "back" \in Buffers
      BY DEF Buffers
    <3> QED  BY <1>2, <2>3, <2>4, <3>1, SetsBuffer
  <2>6. AesTypeOK'
    BY <1>1, <1>2, <2>5 DEF AesTypeOK, StaticTyped, WorkTyped, CallTyped
  <2>7. KeyInv'
    BY <1>1 DEF AesInv, KeyInv, KeyOK, Nr, Nk
  <2>8. IvInv'
    <3>1. ASSUME IvOK PROVE IvOK'
      <4>1. Iv \in IvTargets /\ Iv[1] \in BufferNames /\ Iv[1] # "back"
        BY <3>1, TargetFacts DEF IvOK
      <4> QED  BY <1>1, <2>5, <3>1, <4>1 DEF IvOK, Sets
    <3> QED  BY <1>1, <3>1 DEF AesInv, IvInv
  <2>9. MadeOK' /\ EncInv' /\ DecInv' /\ DoneInv'
    <3>1. mem'["cipher"] = mem["cipher"] /\ ~EncActive /\ ~EncActive' /\ ~Encrypting'
      BY <1>1, <1>5, <2>5 DEF Sets, BufferNames, EncActive, Decrypting, Encrypting
    <3> QED  BY <1>1, <3>1 DEF AesInv, MadeOK, EncInv, DecInv, DoneInv
  <2>10. MessageComesBack'
    <3> SUFFICES ASSUME whole, length = made.len, made.call.pad, made.msg = << >> \/ made.msg[Len(made.msg)] # init_data
                 PROVE  ret' = Len(made.msg) /\ Text(mem'["back"], Len(made.msg)) = made.msg
      BY <1>1 DEF MessageComesBack
    <3>1. made # NULL /\ DecBack
      BY <1>1, <1>5 DEF AesInv, DecInv, DecMade
    <3>2. MadeTyped(made)
      BY <3>1 DEF AesInv, MadeOK
    <3>3. PICK m \in Seq(Octet) : m = made.msg
      BY <3>2, FilledMade
    <3>4. PICK q \in Nat : q = (Len(m) + 15) \div 16 /\ length = 16 * q /\ Len(m) <= 16 * q
      <4>1. PICK l \in Nat : l = Len(m)
        OBVIOUS
      <4>2. (l + 15) \div 16 \in Nat /\ l <= 16 * ((l + 15) \div 16)
        OBVIOUS
      <4> QED  BY <3>2, <3>3, <4>1, <4>2 DEF MadeTyped
    <3>5. q <= MaxBlocks
      BY <1>3, <3>4, BlocksFacts DEF Limit
    <3>6. ASSUME NEW b \in 1..MaxBlocks, b <= q PROVE buf[b] = Filled(m, init_data)[b]
      <4>1. 16 * b <= length /\ (Active => b <= i)
        BY <1>1, <1>3, <1>4, <3>4, <3>6, BlocksFacts DEF Active
      <4> QED  BY <2>1, <3>1, <3>3, <4>1 DEF DecBack
    <3>7. Kept(buf, 16 * q) = Len(m) /\ Text(WithNul(buf, Kept(buf, 16 * q) + 2), Len(m)) = m
      <4>1. Len(m) <= 16 * q /\ (m = << >> \/ m[Len(m)] # init_data)
        BY <3>3, <3>4
      <4>2. \A b \in 1..MaxBlocks : b <= q => buf[b] = Filled(m, init_data)[b]
        BY <3>6
      <4> QED  BY <3>5, <4>1, <4>2, MessageKept
    <3> QED  BY <2>2, <2>3, <2>5, <3>3, <3>4, <3>7 DEF Sets
  <2> QED  BY <2>6, <2>7, <2>8, <2>9, <2>10 DEF AesInv
<1>6. CASE ~(Decrypting /\ call.pad)
  <2>1. ret' = length /\ mem' = mem
    BY <1>6 DEF End
  <2>2. AesTypeOK'
    BY <1>1, <1>2, <2>1 DEF AesTypeOK, StaticTyped, MemTyped, WorkTyped, CallTyped
  <2>3. KeyInv' /\ IvInv'
    BY <1>1, <2>1 DEF AesInv, KeyInv, KeyOK, Nr, Nk, IvInv, IvOK
  <2>4. MadeOK'
    <3>1. ~EncActive'
      BY <1>1 DEF EncActive
    <3>2. CASE EncActive
      <4>1. MadeTyped(made) /\ MadeBlocks(made, mem["cipher"], i) /\ made.len = length /\ at = "block"
        BY <1>1, <3>2 DEF AesInv, MadeOK, EncInv, EncMade, EncActive, Active
      <4>2. \A b \in 1..MaxBlocks : 16 * b <= made.len => b <= i
        BY <1>3, <1>4, <4>1, BlocksFacts
      <4>3. MadeBlocks(made, mem["cipher"], MaxBlocks)
        BY <4>1, <4>2 DEF MadeBlocks
      <4> QED  BY <1>1, <2>1, <3>1, <4>1, <4>3 DEF MadeOK
    <3>3. CASE ~EncActive
      BY <1>1, <2>1, <3>1, <3>3 DEF AesInv, MadeOK
    <3> QED  BY <3>2, <3>3
  <2>5. EncInv' /\ DecInv' /\ DoneInv' /\ MessageComesBack'
    BY <1>1, <1>6, <2>1 DEF EncInv, EncActive, DecInv, DoneInv, MessageComesBack, Decrypting
  <2> QED  BY <2>2, <2>3, <2>4, <2>5 DEF AesInv
<1> QED  BY <1>5, <1>6

(* The caller has the result.                                              *)
LEMMA ReturnKeeps ==
  ASSUME AesInv, Return
  PROVE  AesInv'
<1>1. /\ at = "done" /\ at' = "idle" /\ call' = NULL /\ length' = 0 /\ i' = 0 /\ ret' = 0
      /\ state' = ZeroBlock /\ round' = 0 /\ ref' = ZeroBlock /\ whole' = FALSE
      /\ mem' = [mem EXCEPT !["plain"] = ZeroBuffer, !["back"] = ZeroBuffer]
      /\ UNCHANGED << AES_type, RoundKey, Iv, calls, keyed, prev, kept, made >>
      /\ ~Active /\ ~Active' /\ ~EncActive /\ ~EncActive'
  BY DEF Return, static, Active, EncActive
<1>2. StaticTyped /\ MemTyped /\ WorkTyped /\ CallTyped
  BY DEF AesInv, AesTypeOK
<1>3. MemTyped' /\ \A b \in BufferNames : b \notin {"plain", "back"} => mem'[b] = mem[b]
  <2>1. PICK g : g = mem /\ g = [c \in BufferNames |-> g[c]]
    BY <1>2 DEF MemTyped
  <2>2. mem' = [c \in BufferNames |-> IF c \in {"plain", "back"} THEN ZeroBuffer ELSE g[c]]
    BY <1>1, <2>1 DEF BufferNames
  <2>3. \A b \in BufferNames : mem'[b] = IF b \in {"plain", "back"} THEN ZeroBuffer ELSE mem[b]
    BY <2>1, <2>2
  <2>4. mem' = [c \in BufferNames |-> mem'[c]]
    BY <2>2
  <2>5. "iv" \in BufferNames /\ "iv" \notin {"plain", "back"} /\ Buffers \subseteq BufferNames
    BY DEF BufferNames, Buffers
  <2> QED  BY <1>2, <2>3, <2>4, <2>5, ZeroTyped DEF MemTyped
<1>4. AesTypeOK'
  <2>1. CallTyped'
    BY <1>1, <1>2, BlocksFacts DEF CallTyped, Limit
  <2> QED  BY <1>1, <1>2, <1>3, <2>1, ZeroTyped DEF AesTypeOK, StaticTyped, WorkTyped
<1>5. KeyInv'
  BY <1>1 DEF AesInv, KeyInv, KeyOK, Nr, Nk
<1>6. IvInv'
  <2>1. ASSUME IvOK PROVE IvOK'
    <3>1. Iv \in IvTargets /\ Iv[1] \in BufferNames /\ Iv[1] \notin {"plain", "back"}
      BY <2>1, TargetFacts DEF IvOK
    <3> QED  BY <1>1, <1>3, <2>1, <3>1 DEF IvOK
  <2> QED  BY <1>1, <2>1 DEF AesInv, IvInv
<1>7. MadeOK'
  BY <1>1, <1>3 DEF AesInv, MadeOK, BufferNames
<1> QED  BY <1>1, <1>4, <1>5, <1>6, <1>7 DEF AesInv, EncInv, DecInv, DoneInv, MessageComesBack
=============================================================================
