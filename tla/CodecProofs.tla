----------------------------- MODULE CodecProofs ------------------------------
(***************************************************************************)
(* What the codec keeps, for every key, message, fill and size of the      *)
(* buffers and every limit on calls.  Base64: the groups that the loops of *)
(* base64.c make are those of the regrouped bits, encoding stops where the *)
(* text is complete, decoding where the digits end, and the text of a      *)
(* message decodes to the message.  IInv is the inductive invariant of the *)
(* composition of Base64 with Aes; from it follow the properties of both   *)
(* that the runs check.                                                    *)
(***************************************************************************)
EXTENDS Codec, AesProofs

-----------------------------------------------------------------------------
(* Three bytes are four digits, bit by bit.                                *)

(* The p-th value of a sequence, zero after its end.                       *)
AtOrZero(s, p) == IF p <= Len(s) THEN s[p] ELSE 0
(* The g-th group of bytes and of digits, zeroes at the end.               *)
ThreeBytes(s, g) == << AtOrZero(s, 3 * g + 1), AtOrZero(s, 3 * g + 2), AtOrZero(s, 3 * g + 3) >>
FourDigits(d, g) == << AtOrZero(d, 4 * g + 1), AtOrZero(d, 4 * g + 2),
                       AtOrZero(d, 4 * g + 3), AtOrZero(d, 4 * g + 4) >>

Sextet == 0..63

LEMMA AtOrZeroIn ==
  ASSUME NEW T, NEW s \in Seq(T), NEW q \in Nat, 0 \in T
  PROVE  AtOrZero(s, q + 1) \in T
<1>1. Len(s) \in Nat /\ (q + 1 <= Len(s) => q + 1 \in 1..Len(s))
  OBVIOUS
<1> QED  BY <1>1 DEF AtOrZero

(* Bit p of a sequence is a bit of the byte it is in; of the digit, in a   *)
(* sequence of digits.                                                     *)
LEMMA BitOfByte ==
  ASSUME NEW s \in Seq(Octet), NEW q \in Nat, NEW c \in 0..7
  PROVE  Bit(s, 8, 8 * q + c + 1) = (AtOrZero(s, q + 1) \div 2^(7 - c)) % 2
<1>1. (8 * q + c + 1 - 1) \div 8 = q /\ ((8 * q + c + 1 - 1) % 8) = c
  OBVIOUS
<1>2. PICK e \in 0..7 : e = 7 - c /\ 8 - 1 - c = e
  OBVIOUS
<1>3. PICK p \in Nat \ {0} : p = 2^e
  BY PowersOfTwo
<1>4. Bit(s, 8, 8 * q + c + 1) = IF q < Len(s) THEN (s[q + 1] \div p) % 2 ELSE 0
  BY <1>1, <1>2, <1>3 DEF Bit
<1>5. Len(s) \in Nat
  OBVIOUS
<1>6. (0 \div p) % 2 = 0 /\ (q < Len(s) <=> q + 1 <= Len(s))
  BY <1>3, <1>5
<1>7. Bit(s, 8, 8 * q + c + 1) = (AtOrZero(s, q + 1) \div p) % 2
  BY <1>4, <1>6 DEF AtOrZero
<1> QED  BY <1>2, <1>3, <1>7

LEMMA BitOfDigit ==
  ASSUME NEW s \in Seq(Sextet), NEW q \in Nat, NEW c \in 0..5
  PROVE  Bit(s, 6, 6 * q + c + 1) = (AtOrZero(s, q + 1) \div 2^(5 - c)) % 2
<1>1. (6 * q + c + 1 - 1) \div 6 = q /\ ((6 * q + c + 1 - 1) % 6) = c
  OBVIOUS
<1>2. PICK e \in 0..7 : e = 5 - c /\ 6 - 1 - c = e
  OBVIOUS
<1>3. PICK p \in Nat \ {0} : p = 2^e
  BY PowersOfTwo
<1>4. Bit(s, 6, 6 * q + c + 1) = IF q < Len(s) THEN (s[q + 1] \div p) % 2 ELSE 0
  BY <1>1, <1>2, <1>3 DEF Bit
<1>5. Len(s) \in Nat
  OBVIOUS
<1>6. (0 \div p) % 2 = 0 /\ (q < Len(s) <=> q + 1 <= Len(s))
  BY <1>3, <1>5
<1>7. Bit(s, 6, 6 * q + c + 1) = (AtOrZero(s, q + 1) \div p) % 2
  BY <1>4, <1>6 DEF AtOrZero
<1> QED  BY <1>2, <1>3, <1>7

LEMMA ByteIn == ASSUME NEW s \in Seq(Octet), NEW q \in Nat PROVE AtOrZero(s, q + 1) \in 0..255
<1>1. 0 \in Octet
  BY DEF Octet
<1>2. AtOrZero(s, q + 1) \in Octet
  BY <1>1, AtOrZeroIn
<1> QED  BY <1>2 DEF Octet

LEMMA DigitIn == ASSUME NEW s \in Seq(Sextet), NEW q \in Nat PROVE AtOrZero(s, q + 1) \in 0..63
<1>1. 0 \in Sextet
  BY DEF Sextet
<1>2. AtOrZero(s, q + 1) \in Sextet
  BY <1>1, AtOrZeroIn
<1> QED  BY <1>2 DEF Sextet

(* A bit by its weight.                                                    *)
B(x, w) == (x \div w) % 2
SixBits(a, b, c, d, e, f) == a * 32 + b * 16 + c * 8 + d * 4 + e * 2 + f * 1
EightBits(a, b, c, d, e, f, g, h) == a * 128 + b * 64 + c * 32 + d * 16 + e * 8 + f * 4 + g * 2 + h * 1

(* A value is its half twice, and its lowest bit.                          *)
LEMMA HalfOf ==
  ASSUME NEW m \in {1, 2, 4, 8, 16, 32, 64, 128}, NEW x \in 0..(2 * m - 1)
  PROVE  \E y \in 0..(m - 1), b \in 0..1 : x = 2 * y + b
<1>1. x \div 2 \in 0..(m - 1) /\ x % 2 \in 0..1 /\ x = 2 * (x \div 2) + (x % 2)
  OBVIOUS
<1> QED  BY <1>1

(* An octet is its eight bits.                                             *)
LEMMA ByteIsBits ==
  ASSUME NEW x \in 0..255
  PROVE  \E a, b, c, d, e, f, g, h \in 0..1 :
           /\ x = a * 128 + b * 64 + c * 32 + d * 16 + e * 8 + f * 4 + g * 2 + h
           /\ B(x, 128) = a /\ B(x, 64) = b /\ B(x, 32) = c /\ B(x, 16) = d
           /\ B(x, 8) = e /\ B(x, 4) = f /\ B(x, 2) = g /\ B(x, 1) = h
<1>1. PICK x1 \in 0..127, h \in 0..1 : x = 2 * x1 + h
  BY HalfOf
<1>2. PICK x2 \in 0..63, g \in 0..1 : x1 = 2 * x2 + g
  BY HalfOf
<1>3. PICK x3 \in 0..31, f \in 0..1 : x2 = 2 * x3 + f
  BY HalfOf
<1>4. PICK x4 \in 0..15, e \in 0..1 : x3 = 2 * x4 + e
  BY HalfOf
<1>5. PICK x5 \in 0..7, d \in 0..1 : x4 = 2 * x5 + d
  BY HalfOf
<1>6. PICK x6 \in 0..3, c \in 0..1 : x5 = 2 * x6 + c
  BY HalfOf
<1>7. PICK x7 \in 0..1, b \in 0..1 : x6 = 2 * x7 + b
  BY HalfOf
<1>8. PICK a \in 0..1 : x7 = a
  OBVIOUS
<1>9. x = a * 128 + b * 64 + c * 32 + d * 16 + e * 8 + f * 4 + g * 2 + h
  BY <1>1, <1>2, <1>3, <1>4, <1>5, <1>6, <1>7, <1>8
<1>10. /\ B(x, 128) = a /\ B(x, 64) = b /\ B(x, 32) = c /\ B(x, 16) = d
       /\ B(x, 8) = e /\ B(x, 4) = f /\ B(x, 2) = g /\ B(x, 1) = h
  BY <1>9 DEF B
<1> QED  BY <1>9, <1>10, SMTT(180)

(* What Sextets computes of two neighbouring bytes, and Octets of digits,  *)
(* in their bits.                                                          *)
LEMMA SextetBits ==
  ASSUME NEW x \in 0..255, NEW y \in 0..255
  PROVE  /\ SixBits(B(x, 128), B(x, 64), B(x, 32), B(x, 16), B(x, 8), B(x, 4)) = x \div 4
         /\ SixBits(B(x, 2), B(x, 1), B(y, 128), B(y, 64), B(y, 32), B(y, 16)) = (x % 4) * 16 + (y \div 16)
         /\ SixBits(B(x, 8), B(x, 4), B(x, 2), B(x, 1), B(y, 128), B(y, 64)) = (x % 16) * 4 + (y \div 64)
         /\ SixBits(B(x, 32), B(x, 16), B(x, 8), B(x, 4), B(x, 2), B(x, 1)) = x % 64
<1>1. PICK a, b, c, d, e, f, g, h \in 0..1 :
        /\ x = a * 128 + b * 64 + c * 32 + d * 16 + e * 8 + f * 4 + g * 2 + h
        /\ B(x, 128) = a /\ B(x, 64) = b /\ B(x, 32) = c /\ B(x, 16) = d
        /\ B(x, 8) = e /\ B(x, 4) = f /\ B(x, 2) = g /\ B(x, 1) = h
  BY ByteIsBits, Zenon
<1>2. PICK l, m, n, o, p, q, r, s \in 0..1 :
        /\ y = l * 128 + m * 64 + n * 32 + o * 16 + p * 8 + q * 4 + r * 2 + s
        /\ B(y, 128) = l /\ B(y, 64) = m /\ B(y, 32) = n /\ B(y, 16) = o
        /\ B(y, 8) = p /\ B(y, 4) = q /\ B(y, 2) = r /\ B(y, 1) = s
  BY ByteIsBits, Zenon
<1>3. SixBits(a, b, c, d, e, f) = x \div 4
  BY <1>1 DEF SixBits
<1>4. SixBits(g, h, l, m, n, o) = (x % 4) * 16 + (y \div 16)
  BY <1>1, <1>2 DEF SixBits
<1>5. SixBits(e, f, g, h, l, m) = (x % 16) * 4 + (y \div 64)
  BY <1>1, <1>2 DEF SixBits
<1>6. SixBits(c, d, e, f, g, h) = x % 64
  BY <1>1 DEF SixBits
<1> QED  BY <1>1, <1>2, <1>3, <1>4, <1>5, <1>6

(* Three octets out of four digits.                                        *)
LEMMA OctetBits ==
  ASSUME NEW x \in 0..63, NEW y \in 0..63
  PROVE  /\ EightBits(B(x, 32), B(x, 16), B(x, 8), B(x, 4), B(x, 2), B(x, 1), B(y, 32), B(y, 16)) = x * 4 + (y \div 16)
         /\ EightBits(B(x, 8), B(x, 4), B(x, 2), B(x, 1), B(y, 32), B(y, 16), B(y, 8), B(y, 4)) = (x % 16) * 16 + (y \div 4)
         /\ EightBits(B(x, 2), B(x, 1), B(y, 32), B(y, 16), B(y, 8), B(y, 4), B(y, 2), B(y, 1)) = (x % 4) * 64 + y
<1>1. PICK a, b, c, d, e, f, g, h \in 0..1 :
        /\ x = a * 128 + b * 64 + c * 32 + d * 16 + e * 8 + f * 4 + g * 2 + h
        /\ B(x, 128) = a /\ B(x, 64) = b /\ B(x, 32) = c /\ B(x, 16) = d
        /\ B(x, 8) = e /\ B(x, 4) = f /\ B(x, 2) = g /\ B(x, 1) = h
  <2>1. x \in 0..255
    OBVIOUS
  <2> QED  BY <2>1, ByteIsBits, Zenon
<1>2. PICK l, m, n, o, p, q, r, s \in 0..1 :
        /\ y = l * 128 + m * 64 + n * 32 + o * 16 + p * 8 + q * 4 + r * 2 + s
        /\ B(y, 128) = l /\ B(y, 64) = m /\ B(y, 32) = n /\ B(y, 16) = o
        /\ B(y, 8) = p /\ B(y, 4) = q /\ B(y, 2) = r /\ B(y, 1) = s
  <2>1. y \in 0..255
    OBVIOUS
  <2> QED  BY <2>1, ByteIsBits, Zenon
<1>3. a = 0 /\ b = 0 /\ x = c * 32 + d * 16 + e * 8 + f * 4 + g * 2 + h
  BY <1>1
<1>4. l = 0 /\ m = 0 /\ y = n * 32 + o * 16 + p * 8 + q * 4 + r * 2 + s
  BY <1>2
<1>5. EightBits(c, d, e, f, g, h, n, o) = x * 4 + (y \div 16)
  BY <1>3, <1>4 DEF EightBits
<1>6. EightBits(e, f, g, h, n, o, p, q) = (x % 16) * 16 + (y \div 4)
  BY <1>3, <1>4 DEF EightBits
<1>7. EightBits(g, h, n, o, p, q, r, s) = (x % 4) * 64 + y
  BY <1>3, <1>4 DEF EightBits
<1> QED  BY <1>1, <1>2, <1>5, <1>6, <1>7

-----------------------------------------------------------------------------
(* The bits of a byte or a digit in the stream of bits, after the first p; *)
(* and the numbers that are regrouped from them.                           *)
ByteAfter(s, p, x) ==
  /\ Bit(s, 8, p + 1) = B(x, 128) /\ Bit(s, 8, p + 2) = B(x, 64)
  /\ Bit(s, 8, p + 3) = B(x, 32) /\ Bit(s, 8, p + 4) = B(x, 16)
  /\ Bit(s, 8, p + 5) = B(x, 8) /\ Bit(s, 8, p + 6) = B(x, 4)
  /\ Bit(s, 8, p + 7) = B(x, 2) /\ Bit(s, 8, p + 8) = B(x, 1)

DigitAfter(s, p, x) ==
  /\ Bit(s, 6, p + 1) = B(x, 32) /\ Bit(s, 6, p + 2) = B(x, 16)
  /\ Bit(s, 6, p + 3) = B(x, 8) /\ Bit(s, 6, p + 4) = B(x, 4)
  /\ Bit(s, 6, p + 5) = B(x, 2) /\ Bit(s, 6, p + 6) = B(x, 1)

(* The bits of a group lie in its bytes.                                   *)
LEMMA ByteBits ==
  ASSUME NEW s \in Seq(Octet), NEW q \in Nat, NEW p \in Nat, p = 8 * q
  PROVE  ByteAfter(s, p, AtOrZero(s, q + 1)) /\ AtOrZero(s, q + 1) \in 0..255
<1> DEFINE x == AtOrZero(s, q + 1)
           is(c) == Bit(s, 8, p + c + 1) = (x \div 2^(7 - c)) % 2
<1>1. \A c \in 0..7 : is(c)
  BY BitOfByte
<1>2. is(0) /\ is(1) /\ is(2) /\ is(3) /\ is(4) /\ is(5) /\ is(6) /\ is(7)
  <2> HIDE DEF is
  <2> QED  BY <1>1
<1>3. ByteAfter(s, p, x)
  BY <1>2 DEF ByteAfter, B
<1> QED  BY <1>3, ByteIn

LEMMA DigitBits ==
  ASSUME NEW s \in Seq(Sextet), NEW q \in Nat, NEW p \in Nat, p = 6 * q
  PROVE  DigitAfter(s, p, AtOrZero(s, q + 1)) /\ AtOrZero(s, q + 1) \in 0..63
<1> DEFINE x == AtOrZero(s, q + 1)
           is(c) == Bit(s, 6, p + c + 1) = (x \div 2^(5 - c)) % 2
<1>1. \A c \in 0..5 : is(c)
  BY BitOfDigit
<1>2. is(0) /\ is(1) /\ is(2) /\ is(3) /\ is(4) /\ is(5)
  <2> HIDE DEF is
  <2> QED  BY <1>1
<1>3. DigitAfter(s, p, x)
  BY <1>2 DEF DigitAfter, B
<1> QED  BY <1>3, DigitIn

(* Regrouped, written out for six and for eight bits.                      *)
LEMMA RegroupedSix ==
  ASSUME NEW s, NEW n \in Nat, NEW p \in Nat, p = 6 * (n - 1)
  PROVE  Regrouped(s, 8, 6, n) = SixBits(Bit(s, 8, p + 1), Bit(s, 8, p + 2), Bit(s, 8, p + 3),
                                         Bit(s, 8, p + 4), Bit(s, 8, p + 5), Bit(s, 8, p + 6))
<1>1. 2^(6 - 1) = 32 /\ 2^(6 - 2) = 16 /\ 2^(6 - 3) = 8 /\ 2^(6 - 4) = 4 /\ 2^(6 - 5) = 2 /\ 2^(6 - 6) = 1
  OBVIOUS
<1> QED  BY <1>1 DEF Regrouped, SixBits

LEMMA RegroupedEight ==
  ASSUME NEW s, NEW n \in Nat, NEW p \in Nat, p = 8 * (n - 1)
  PROVE  Regrouped(s, 6, 8, n) = EightBits(Bit(s, 6, p + 1), Bit(s, 6, p + 2), Bit(s, 6, p + 3), Bit(s, 6, p + 4),
                                           Bit(s, 6, p + 5), Bit(s, 6, p + 6), Bit(s, 6, p + 7), Bit(s, 6, p + 8))
<1>1. /\ 2^(8 - 1) = 128 /\ 2^(8 - 2) = 64 /\ 2^(8 - 3) = 32 /\ 2^(8 - 4) = 16
      /\ 2^(8 - 5) = 8 /\ 2^(8 - 6) = 4 /\ 2^(8 - 7) = 2 /\ 2^(8 - 8) = 1
  OBVIOUS
<1> QED  BY <1>1 DEF Regrouped, EightBits

(* The digits of a group are the shifts and masks of the encoding loop.    *)
LEMMA SextetsOfThree ==
  ASSUME NEW s \in Seq(Octet), NEW g \in Nat
  PROVE  \A k \in 1..4 : Regrouped(s, 8, 6, 4 * g + k) = Sextets(ThreeBytes(s, g))[k]
<1> DEFINE x1 == AtOrZero(s, 3 * g + 1)
           x2 == AtOrZero(s, 3 * g + 2)
           x3 == AtOrZero(s, 3 * g + 3)
<1>1. PICK p \in Nat : p = 24 * g
  OBVIOUS
<1>2. /\ ByteAfter(s, p, x1) /\ x1 \in 0..255
      /\ ByteAfter(s, p + 8, x2) /\ x2 \in 0..255
      /\ ByteAfter(s, p + 16, x3) /\ x3 \in 0..255
  <2>1. /\ 3 * g \in Nat /\ p = 8 * (3 * g)
        /\ 3 * g + 1 \in Nat /\ p + 8 = 8 * (3 * g + 1) /\ p + 8 \in Nat /\ 3 * g + 1 + 1 = 3 * g + 2
        /\ 3 * g + 2 \in Nat /\ p + 16 = 8 * (3 * g + 2) /\ p + 16 \in Nat /\ 3 * g + 2 + 1 = 3 * g + 3
    BY <1>1
  <2> HIDE DEF x1, x2, x3
  <2>2. ByteAfter(s, p, x1) /\ x1 \in 0..255
    BY <2>1, ByteBits, ZenonT(60) DEF x1
  <2>3. ByteAfter(s, p + 8, x2) /\ x2 \in 0..255
    BY <2>1, ByteBits, ZenonT(60) DEF x2
  <2>4. ByteAfter(s, p + 16, x3) /\ x3 \in 0..255
    BY <2>1, ByteBits, ZenonT(60) DEF x3
  <2> QED  BY <2>2, <2>3, <2>4
<1>3. Sextets(ThreeBytes(s, g)) = << x1 \div 4, (x1 % 4) * 16 + (x2 \div 16), (x2 % 16) * 4 + (x3 \div 64), x3 % 64 >>
  BY DEF Sextets, ThreeBytes
<1> HIDE DEF x1, x2, x3
<1>4. Regrouped(s, 8, 6, 4 * g + 1) = x1 \div 4
  <2>1. Regrouped(s, 8, 6, 4 * g + 1) = SixBits(Bit(s, 8, p + 1), Bit(s, 8, p + 2), Bit(s, 8, p + 3),
                                                Bit(s, 8, p + 4), Bit(s, 8, p + 5), Bit(s, 8, p + 6))
    BY <1>1, RegroupedSix, SMTT(60)
  <2> QED  BY <1>2, <2>1, SextetBits, ZenonT(60) DEF ByteAfter
<1>5. Regrouped(s, 8, 6, 4 * g + 2) = (x1 % 4) * 16 + (x2 \div 16)
  <2>1. Regrouped(s, 8, 6, 4 * g + 2) = SixBits(Bit(s, 8, p + 7), Bit(s, 8, p + 8), Bit(s, 8, p + 8 + 1),
                                                Bit(s, 8, p + 8 + 2), Bit(s, 8, p + 8 + 3), Bit(s, 8, p + 8 + 4))
    <3>1. p + 6 \in Nat /\ p + 6 = 6 * (4 * g + 2 - 1) /\ 4 * g + 2 \in Nat
      BY <1>1
    <3>2. /\ p + 6 + 1 = p + 7 /\ p + 6 + 2 = p + 8 /\ p + 6 + 3 = p + 8 + 1
          /\ p + 6 + 4 = p + 8 + 2 /\ p + 6 + 5 = p + 8 + 3 /\ p + 6 + 6 = p + 8 + 4
      OBVIOUS
    <3>3. Regrouped(s, 8, 6, 4 * g + 2) =
            SixBits(Bit(s, 8, p + 6 + 1), Bit(s, 8, p + 6 + 2), Bit(s, 8, p + 6 + 3),
                    Bit(s, 8, p + 6 + 4), Bit(s, 8, p + 6 + 5), Bit(s, 8, p + 6 + 6))
      BY <3>1, RegroupedSix, SMTT(60)
    <3> QED  BY <3>2, <3>3
  <2>2. Regrouped(s, 8, 6, 4 * g + 2) =
          SixBits(B(x1, 2), B(x1, 1), B(x2, 128), B(x2, 64), B(x2, 32), B(x2, 16))
    BY <1>2, <2>1 DEF ByteAfter
  <2> QED  BY <1>2, <2>2, SextetBits, ZenonT(60)
<1>6. Regrouped(s, 8, 6, 4 * g + 3) = (x2 % 16) * 4 + (x3 \div 64)
  <2>1. Regrouped(s, 8, 6, 4 * g + 3) = SixBits(Bit(s, 8, p + 8 + 5), Bit(s, 8, p + 8 + 6), Bit(s, 8, p + 8 + 7),
                                                Bit(s, 8, p + 8 + 8), Bit(s, 8, p + 16 + 1), Bit(s, 8, p + 16 + 2))
    <3>1. p + 12 \in Nat /\ p + 12 = 6 * (4 * g + 3 - 1) /\ 4 * g + 3 \in Nat
      BY <1>1
    <3>2. /\ p + 12 + 1 = p + 8 + 5 /\ p + 12 + 2 = p + 8 + 6 /\ p + 12 + 3 = p + 8 + 7
          /\ p + 12 + 4 = p + 8 + 8 /\ p + 12 + 5 = p + 16 + 1 /\ p + 12 + 6 = p + 16 + 2
      OBVIOUS
    <3>3. Regrouped(s, 8, 6, 4 * g + 3) =
            SixBits(Bit(s, 8, p + 12 + 1), Bit(s, 8, p + 12 + 2), Bit(s, 8, p + 12 + 3),
                    Bit(s, 8, p + 12 + 4), Bit(s, 8, p + 12 + 5), Bit(s, 8, p + 12 + 6))
      BY <3>1, RegroupedSix, SMTT(60)
    <3> QED  BY <3>2, <3>3
  <2>2. Regrouped(s, 8, 6, 4 * g + 3) =
          SixBits(B(x2, 8), B(x2, 4), B(x2, 2), B(x2, 1), B(x3, 128), B(x3, 64))
    BY <1>2, <2>1 DEF ByteAfter
  <2> QED  BY <1>2, <2>2, SextetBits, ZenonT(60)
<1>7. Regrouped(s, 8, 6, 4 * g + 4) = x3 % 64
  <2>1. Regrouped(s, 8, 6, 4 * g + 4) = SixBits(Bit(s, 8, p + 16 + 3), Bit(s, 8, p + 16 + 4), Bit(s, 8, p + 16 + 5),
                                                Bit(s, 8, p + 16 + 6), Bit(s, 8, p + 16 + 7), Bit(s, 8, p + 16 + 8))
    <3>1. p + 18 \in Nat /\ p + 18 = 6 * (4 * g + 4 - 1) /\ 4 * g + 4 \in Nat
      BY <1>1
    <3>2. /\ p + 18 + 1 = p + 16 + 3 /\ p + 18 + 2 = p + 16 + 4 /\ p + 18 + 3 = p + 16 + 5
          /\ p + 18 + 4 = p + 16 + 6 /\ p + 18 + 5 = p + 16 + 7 /\ p + 18 + 6 = p + 16 + 8
      OBVIOUS
    <3>3. Regrouped(s, 8, 6, 4 * g + 4) =
            SixBits(Bit(s, 8, p + 18 + 1), Bit(s, 8, p + 18 + 2), Bit(s, 8, p + 18 + 3),
                    Bit(s, 8, p + 18 + 4), Bit(s, 8, p + 18 + 5), Bit(s, 8, p + 18 + 6))
      BY <3>1, RegroupedSix, SMTT(60)
    <3> QED  BY <3>2, <3>3
  <2> QED  BY <1>2, <2>1, SextetBits, ZenonT(60) DEF ByteAfter
<1> DEFINE is(k) == Regrouped(s, 8, 6, 4 * g + k) = Sextets(ThreeBytes(s, g))[k]
<1>8. is(1) /\ is(2) /\ is(3) /\ is(4)
  BY <1>3, <1>4, <1>5, <1>6, <1>7
<1> HIDE DEF is
<1> QED  BY <1>8 DEF is

(* And its octets those of the decoding loop.                              *)
LEMMA OctetsOfFour ==
  ASSUME NEW s \in Seq(Sextet), NEW g \in Nat
  PROVE  \A k \in 1..3 : Regrouped(s, 6, 8, 3 * g + k) = Octets(FourDigits(s, g))[k]
<1> DEFINE x1 == AtOrZero(s, 4 * g + 1)
           x2 == AtOrZero(s, 4 * g + 2)
           x3 == AtOrZero(s, 4 * g + 3)
           x4 == AtOrZero(s, 4 * g + 4)
<1>1. PICK p \in Nat : p = 24 * g
  OBVIOUS
<1>2. /\ DigitAfter(s, p, x1) /\ x1 \in 0..63
      /\ DigitAfter(s, p + 6, x2) /\ x2 \in 0..63
      /\ DigitAfter(s, p + 12, x3) /\ x3 \in 0..63
      /\ DigitAfter(s, p + 18, x4) /\ x4 \in 0..63
  <2>1. /\ 4 * g \in Nat /\ p = 6 * (4 * g)
        /\ 4 * g + 1 \in Nat /\ p + 6 = 6 * (4 * g + 1) /\ p + 6 \in Nat /\ 4 * g + 1 + 1 = 4 * g + 2
        /\ 4 * g + 2 \in Nat /\ p + 12 = 6 * (4 * g + 2) /\ p + 12 \in Nat /\ 4 * g + 2 + 1 = 4 * g + 3
        /\ 4 * g + 3 \in Nat /\ p + 18 = 6 * (4 * g + 3) /\ p + 18 \in Nat /\ 4 * g + 3 + 1 = 4 * g + 4
    BY <1>1
  <2> HIDE DEF x1, x2, x3, x4
  <2>2. DigitAfter(s, p, x1) /\ x1 \in 0..63
    BY <2>1, DigitBits DEF x1
  <2>3. DigitAfter(s, p + 6, x2) /\ x2 \in 0..63
    BY <2>1, DigitBits DEF x2
  <2>4. DigitAfter(s, p + 12, x3) /\ x3 \in 0..63
    BY <2>1, DigitBits DEF x3
  <2>5. DigitAfter(s, p + 18, x4) /\ x4 \in 0..63
    BY <2>1, DigitBits DEF x4
  <2> QED  BY <2>2, <2>3, <2>4, <2>5
<1>3. Octets(FourDigits(s, g)) = << x1 * 4 + (x2 \div 16), (x2 % 16) * 16 + (x3 \div 4), (x3 % 4) * 64 + x4 >>
  BY DEF Octets, FourDigits
<1> HIDE DEF x1, x2, x3, x4
<1>4. Regrouped(s, 6, 8, 3 * g + 1) = x1 * 4 + (x2 \div 16)
  <2>1. Regrouped(s, 6, 8, 3 * g + 1) = EightBits(Bit(s, 6, p + 1), Bit(s, 6, p + 2), Bit(s, 6, p + 3), Bit(s, 6, p + 4),
                                                  Bit(s, 6, p + 5), Bit(s, 6, p + 6), Bit(s, 6, p + 6 + 1), Bit(s, 6, p + 6 + 2))
    <3>1. p = 8 * (3 * g + 1 - 1) /\ 3 * g + 1 \in Nat /\ p + 6 + 1 = p + 7 /\ p + 6 + 2 = p + 8
      BY <1>1
    <3> QED  BY <3>1, RegroupedEight
  <2> QED  BY <1>2, <2>1, OctetBits, ZenonT(60) DEF DigitAfter
<1>5. Regrouped(s, 6, 8, 3 * g + 2) = (x2 % 16) * 16 + (x3 \div 4)
  <2>1. Regrouped(s, 6, 8, 3 * g + 2) =
          EightBits(Bit(s, 6, p + 6 + 3), Bit(s, 6, p + 6 + 4), Bit(s, 6, p + 6 + 5), Bit(s, 6, p + 6 + 6),
                    Bit(s, 6, p + 12 + 1), Bit(s, 6, p + 12 + 2), Bit(s, 6, p + 12 + 3), Bit(s, 6, p + 12 + 4))
    <3>1. p + 8 \in Nat /\ p + 8 = 8 * (3 * g + 2 - 1) /\ 3 * g + 2 \in Nat
      BY <1>1
    <3>2. /\ p + 8 + 1 = p + 6 + 3 /\ p + 8 + 2 = p + 6 + 4 /\ p + 8 + 3 = p + 6 + 5 /\ p + 8 + 4 = p + 6 + 6
          /\ p + 8 + 5 = p + 12 + 1 /\ p + 8 + 6 = p + 12 + 2 /\ p + 8 + 7 = p + 12 + 3 /\ p + 8 + 8 = p + 12 + 4
      OBVIOUS
    <3>3. Regrouped(s, 6, 8, 3 * g + 2) =
            EightBits(Bit(s, 6, p + 8 + 1), Bit(s, 6, p + 8 + 2), Bit(s, 6, p + 8 + 3), Bit(s, 6, p + 8 + 4),
                      Bit(s, 6, p + 8 + 5), Bit(s, 6, p + 8 + 6), Bit(s, 6, p + 8 + 7), Bit(s, 6, p + 8 + 8))
      BY <3>1, RegroupedEight, SMTT(60)
    <3> QED  BY <3>2, <3>3
  <2>2. Regrouped(s, 6, 8, 3 * g + 2) =
          EightBits(B(x2, 8), B(x2, 4), B(x2, 2), B(x2, 1), B(x3, 32), B(x3, 16), B(x3, 8), B(x3, 4))
    BY <1>2, <2>1 DEF DigitAfter
  <2> QED  BY <1>2, <2>2, OctetBits
<1>6. Regrouped(s, 6, 8, 3 * g + 3) = (x3 % 4) * 64 + x4
  <2>1. Regrouped(s, 6, 8, 3 * g + 3) =
          EightBits(Bit(s, 6, p + 12 + 5), Bit(s, 6, p + 12 + 6), Bit(s, 6, p + 18 + 1), Bit(s, 6, p + 18 + 2),
                    Bit(s, 6, p + 18 + 3), Bit(s, 6, p + 18 + 4), Bit(s, 6, p + 18 + 5), Bit(s, 6, p + 18 + 6))
    <3>1. p + 16 \in Nat /\ p + 16 = 8 * (3 * g + 3 - 1) /\ 3 * g + 3 \in Nat
      BY <1>1
    <3>2. /\ p + 16 + 1 = p + 12 + 5 /\ p + 16 + 2 = p + 12 + 6 /\ p + 16 + 3 = p + 18 + 1 /\ p + 16 + 4 = p + 18 + 2
          /\ p + 16 + 5 = p + 18 + 3 /\ p + 16 + 6 = p + 18 + 4 /\ p + 16 + 7 = p + 18 + 5 /\ p + 16 + 8 = p + 18 + 6
      OBVIOUS
    <3>3. Regrouped(s, 6, 8, 3 * g + 3) =
            EightBits(Bit(s, 6, p + 16 + 1), Bit(s, 6, p + 16 + 2), Bit(s, 6, p + 16 + 3), Bit(s, 6, p + 16 + 4),
                      Bit(s, 6, p + 16 + 5), Bit(s, 6, p + 16 + 6), Bit(s, 6, p + 16 + 7), Bit(s, 6, p + 16 + 8))
      BY <3>1, RegroupedEight, SMTT(60)
    <3> QED  BY <3>2, <3>3
  <2>2. Regrouped(s, 6, 8, 3 * g + 3) =
          EightBits(B(x3, 2), B(x3, 1), B(x4, 32), B(x4, 16), B(x4, 8), B(x4, 4), B(x4, 2), B(x4, 1))
    BY <1>2, <2>1 DEF DigitAfter
  <2> QED  BY <1>2, <2>2, OctetBits
<1> QED  BY <1>3, <1>4, <1>5, <1>6, SMTT(60)

-----------------------------------------------------------------------------
(* The alphabet, and texts as sequences of digits and padding.             *)

(* The table names every digit once, and the padding is none of them.      *)
LEMMA TableDistinct ==
  ASSUME NEW k \in 1..64, NEW l \in 1..64, b64_table[k] = b64_table[l]
  PROVE  k = l
BY SMTT(120) DEF b64_table

LEMMA TableNotPad == \A l \in 1..64 : b64_table[l] # Pad
BY DEF b64_table, Pad

(* What the search of the decoder finds is the digit's place in the table. *)
LEMMA ValueOfDigit ==
  ASSUME NEW l \in 0..63
  PROVE  Value(b64_table[l + 1]) = l /\ b64_table[l + 1] \in Digit
<1>1. \A m \in 0..63 : b64_table[m + 1] = b64_table[l + 1] => m = l
  <2> SUFFICES ASSUME NEW m \in 0..63, b64_table[m + 1] = b64_table[l + 1] PROVE m = l
    OBVIOUS
  <2>1. PICK p \in 1..64, q \in 1..64 : p = m + 1 /\ q = l + 1
    OBVIOUS
  <2>2. p = q
    BY <2>1, TableDistinct
  <2> QED  BY <2>1, <2>2
<1>2. l + 1 \in 1..64
  OBVIOUS
<1> QED  BY <1>1, <1>2 DEF Value, Digit

LEMMA ValueIn ==
  ASSUME NEW c \in Digit
  PROVE  Value(c) \in Sextet /\ b64_table[Value(c) + 1] = c
<1>1. PICK l \in 1..64 : c = b64_table[l]
  BY DEF Digit
<1>2. l - 1 \in 0..63 /\ (l - 1) + 1 = l
  OBVIOUS
<1>3. Value(c) = l - 1
  BY <1>1, <1>2, ValueOfDigit
<1> QED  BY <1>1, <1>2, <1>3 DEF Sextet

(* The definitions of the alphabet's values and of the octets, one by one. *)
LEMMA SextetsAndOctets ==
  ASSUME NEW x1 \in 0..255, NEW x2 \in 0..255, NEW x3 \in 0..255
  PROVE  LET s == Sextets(<< x1, x2, x3 >>) IN
         /\ s[1] \in 0..63 /\ s[2] \in 0..63 /\ s[3] \in 0..63 /\ s[4] \in 0..63
         /\ Octets(s) = << x1, x2, x3 >>
<1>1. PICK h1 \in 0..63, l1 \in 0..3 : x1 = 4 * h1 + l1 /\ h1 = x1 \div 4 /\ l1 = x1 % 4
  OBVIOUS
<1>2. PICK h2 \in 0..15, l2 \in 0..15 : x2 = 16 * h2 + l2 /\ h2 = x2 \div 16 /\ l2 = x2 % 16
  OBVIOUS
<1>3. PICK h3 \in 0..3, l3 \in 0..63 : x3 = 64 * h3 + l3 /\ h3 = x3 \div 64 /\ l3 = x3 % 64
  OBVIOUS
<1>4. Sextets(<< x1, x2, x3 >>) = << h1, l1 * 16 + h2, l2 * 4 + h3, l3 >>
  BY <1>1, <1>2, <1>3 DEF Sextets
<1>5. PICK m \in 0..63, n \in 0..63 : m = l1 * 16 + h2 /\ n = l2 * 4 + h3
  OBVIOUS
<1>6. m \div 16 = l1 /\ m % 16 = h2 /\ n \div 4 = l2 /\ n % 4 = h3
  BY <1>5
<1>7. Octets(<< h1, m, n, l3 >>) = << h1 * 4 + l1, h2 * 16 + l2, h3 * 64 + l3 >>
  BY <1>6 DEF Octets
<1>8. Sextets(<< x1, x2, x3 >>) = << h1, m, n, l3 >>
  BY <1>4, <1>5
<1>9. h1 * 4 + l1 = x1 /\ h2 * 16 + l2 = x2 /\ h3 * 64 + l3 = x3
  BY <1>1, <1>2, <1>3
<1>10. Octets(<< h1, m, n, l3 >>) = << x1, x2, x3 >>
  BY <1>7, <1>9
<1>11. l3 \in 0..63 /\ h1 \in 0..63
  OBVIOUS
<1> QED  BY <1>5, <1>8, <1>10, <1>11

LEMMA OctetsIn ==
  ASSUME NEW x1 \in 0..63, NEW x2 \in 0..63, NEW x3 \in 0..63, NEW x4 \in 0..63
  PROVE  LET b == Octets(<< x1, x2, x3, x4 >>) IN b[1] \in 0..255 /\ b[2] \in 0..255 /\ b[3] \in 0..255
BY DEF Octets

Letter == Digit \cup {Pad}

LEMMA SextetsIn ==
  ASSUME NEW s \in Seq(Octet), NEW g \in Nat, NEW r \in 1..4
  PROVE  Sextets(ThreeBytes(s, g))[r] \in 0..63
<1>1. PICK q1 \in Nat, q2 \in Nat, q3 \in Nat : q1 = 3 * g /\ q2 = 3 * g + 1 /\ q3 = 3 * g + 2
  OBVIOUS
<1>2. AtOrZero(s, q1 + 1) \in 0..255 /\ AtOrZero(s, q2 + 1) \in 0..255 /\ AtOrZero(s, q3 + 1) \in 0..255
  BY ByteIn
<1>3. q1 + 1 = 3 * g + 1 /\ q2 + 1 = 3 * g + 2 /\ q3 + 1 = 3 * g + 3
  BY <1>1
<1>4. PICK x1 \in 0..255, x2 \in 0..255, x3 \in 0..255 : ThreeBytes(s, g) = << x1, x2, x3 >>
  BY <1>2, <1>3 DEF ThreeBytes
<1>5. LET v == Sextets(<< x1, x2, x3 >>) IN v[1] \in 0..63 /\ v[2] \in 0..63 /\ v[3] \in 0..63 /\ v[4] \in 0..63
  BY SextetsAndOctets, ZenonT(60)
<1>6. r = 1 \/ r = 2 \/ r = 3 \/ r = 4
  OBVIOUS
<1> QED  BY <1>4, <1>5, <1>6

(* The length of a text, and each of its characters.                       *)
EncodedLength(n) == 4 * ((n + 2) \div 3)

LEMMA EncodedAt ==
  ASSUME NEW s \in Seq(Octet), NEW g \in Nat, NEW r \in 1..4, 4 * g + r <= EncodedLength(Len(s))
  PROVE  Encoded(s)[4 * g + r] = IF 6 * (4 * g + r - 1) < 8 * Len(s)
                                 THEN b64_table[Sextets(ThreeBytes(s, g))[r] + 1] ELSE Pad
<1>1. PICK n \in Nat : n = 4 * g + r
  OBVIOUS
<1>2. n \in 1..4 * ((Len(s) + 2) \div 3)
  BY <1>1 DEF EncodedLength
<1>3. Encoded(s)[n] = IF 6 * (n - 1) < 8 * Len(s) THEN b64_table[Regrouped(s, 8, 6, n) + 1] ELSE Pad
  BY <1>2 DEF Encoded
<1>4. Regrouped(s, 8, 6, n) = Sextets(ThreeBytes(s, g))[r]
  BY <1>1, SextetsOfThree
<1> QED  BY <1>1, <1>3, <1>4

(* Every character is in a group of four.                                  *)
LEMMA GroupOf ==
  ASSUME NEW n \in Nat, n > 0
  PROVE  \E g \in Nat, r \in 1..4 : n = 4 * g + r
<1>1. (n - 1) \div 4 \in Nat /\ ((n - 1) % 4) + 1 \in 1..4 /\ n = 4 * ((n - 1) \div 4) + (((n - 1) % 4) + 1)
  OBVIOUS
<1> QED  BY <1>1

LEMMA EncodedTyped ==
  ASSUME NEW s \in Seq(Octet)
  PROVE  /\ Encoded(s) \in Seq(Letter) /\ Len(Encoded(s)) = EncodedLength(Len(s))
         /\ EncodedLength(Len(s)) \in Nat
<1>1. EncodedLength(Len(s)) \in Nat
  BY DEF EncodedLength
<1>2. ASSUME NEW n \in 1..EncodedLength(Len(s))
      PROVE  Encoded(s)[n] \in Letter
  <2>1. n \in Nat /\ n > 0 /\ n <= EncodedLength(Len(s))
    BY <1>1
  <2>2. PICK g \in Nat, r \in 1..4 : n = 4 * g + r
    BY <2>1, GroupOf
  <2>3. Encoded(s)[4 * g + r] = IF 6 * (4 * g + r - 1) < 8 * Len(s)
                                THEN b64_table[Sextets(ThreeBytes(s, g))[r] + 1] ELSE Pad
    <3>1. 4 * g + r <= EncodedLength(Len(s))
      BY <2>1, <2>2
    <3> QED  BY <3>1, EncodedAt
  <2>4. b64_table[Sextets(ThreeBytes(s, g))[r] + 1] \in Digit
    BY SextetsIn, ValueOfDigit
  <2> QED  BY <2>2, <2>3, <2>4 DEF Letter
<1>3. Encoded(s) \in [1..EncodedLength(Len(s)) -> Letter]
  <2>1. Encoded(s) = [n \in 1..EncodedLength(Len(s)) |-> Encoded(s)[n]]
    BY DEF Encoded, EncodedLength
  <2> QED  BY <1>2, <2>1
<1> QED  BY <1>1, <1>3, FunctionIsSeq

(* The digits before the first other character: there is one such number.  *)
Leading(t, k) == /\ k \in 0..Len(t)
                 /\ \A j \in 1..k : t[j] \in Digit
                 /\ k < Len(t) => t[k + 1] \notin Digit

LEMMA LeadingExists ==
  ASSUME NEW t, Len(t) \in Nat
  PROVE  \E k \in 0..Len(t) : Leading(t, k)
<1> DEFINE Ends == {k \in 0..Len(t) : k < Len(t) => t[k + 1] \notin Digit}
<1>1. Len(t) \in Ends /\ Ends \subseteq Nat
  OBVIOUS
<1>2. PICK k \in Ends : \A n \in Ends : k <= n
  BY <1>1, LeastNat
<1>3. ASSUME NEW j \in 1..k PROVE t[j] \in Digit
  <2>1. k \in Nat /\ j \in Nat /\ j - 1 < k /\ j - 1 \in Nat
    BY <1>1, <1>2
  <2>2. j - 1 \notin Ends
    <3>1. PICK m \in Nat : m = j - 1 /\ m < k
      BY <2>1
    <3> HIDE DEF Ends
    <3>2. m \notin Ends
      BY <1>1, <1>2, <2>1, <3>1
    <3> QED  BY <3>1, <3>2
  <2>3. j - 1 \in 0..Len(t) /\ (j - 1) + 1 = j
    BY <1>2
  <2> QED  BY <2>2, <2>3
<1> QED  BY <1>2, <1>3 DEF Leading

LEMMA LeadingUnique ==
  ASSUME NEW t, Len(t) \in Nat, NEW k, NEW m, Leading(t, k), Leading(t, m)
  PROVE  k = m
<1>1. ASSUME NEW a, NEW b, Leading(t, a), Leading(t, b), a < b
      PROVE  FALSE
  <2>1. a \in Nat /\ b \in Nat /\ a + 1 \in 1..b /\ a < Len(t)
    BY <1>1 DEF Leading
  <2> QED  BY <1>1, <2>1 DEF Leading
<1>2. k \in Nat /\ m \in Nat
  BY DEF Leading
<1>3. ~(k < m) /\ ~(m < k)
  BY <1>1
<1> QED  BY <1>2, <1>3

(* That is what DigitsOf takes.                                            *)
LEMMA DigitsOfIs ==
  ASSUME NEW t, Len(t) \in Nat, NEW k, Leading(t, k)
  PROVE  /\ DigitsOf(t) \in Seq(Sextet) /\ Len(DigitsOf(t)) = k /\ k \in Nat
         /\ \A j \in 1..k : DigitsOf(t)[j] = Value(t[j])
<1> DEFINE n == CHOOSE m \in 0..Len(t) : /\ \A j \in 1..m : t[j] \in Digit
                                         /\ m < Len(t) => t[m + 1] \notin Digit
<1>1. n = k
  <2>1. \E m \in 0..Len(t) : /\ \A j \in 1..m : t[j] \in Digit
                             /\ m < Len(t) => t[m + 1] \notin Digit
    BY LeadingExists DEF Leading
  <2>2. Leading(t, n)
    BY <2>1 DEF Leading
  <2> HIDE DEF n
  <2> QED  BY <2>2, LeadingUnique
<1>2. DigitsOf(t) = [j \in 1..n |-> Value(t[j])]
  BY DEF DigitsOf
<1> HIDE DEF n
<1>3. \A j \in 1..k : Value(t[j]) \in Sextet
  BY ValueIn DEF Leading
<1>4. k \in Nat
  BY DEF Leading
<1>5. DigitsOf(t) = [j \in 1..k |-> Value(t[j])]
  BY <1>1, <1>2
<1>6. DigitsOf(t) \in [1..k -> Sextet]
  BY <1>3, <1>5
<1> QED  BY <1>4, <1>5, <1>6, FunctionIsSeq

LEMMA OctetsInGroup ==
  ASSUME NEW d \in Seq(Sextet), NEW g \in Nat, NEW r \in 1..3
  PROVE  Octets(FourDigits(d, g))[r] \in Octet
<1>1. PICK q1 \in Nat, q2 \in Nat, q3 \in Nat, q4 \in Nat :
         q1 = 4 * g /\ q2 = 4 * g + 1 /\ q3 = 4 * g + 2 /\ q4 = 4 * g + 3
  OBVIOUS
<1>2. /\ AtOrZero(d, q1 + 1) \in 0..63 /\ AtOrZero(d, q2 + 1) \in 0..63
      /\ AtOrZero(d, q3 + 1) \in 0..63 /\ AtOrZero(d, q4 + 1) \in 0..63
  BY DigitIn
<1>3. q1 + 1 = 4 * g + 1 /\ q2 + 1 = 4 * g + 2 /\ q3 + 1 = 4 * g + 3 /\ q4 + 1 = 4 * g + 4
  BY <1>1
<1>4. PICK x1 \in 0..63, x2 \in 0..63, x3 \in 0..63, x4 \in 0..63 : FourDigits(d, g) = << x1, x2, x3, x4 >>
  BY <1>2, <1>3 DEF FourDigits
<1>5. LET b == Octets(<< x1, x2, x3, x4 >>) IN b[1] \in 0..255 /\ b[2] \in 0..255 /\ b[3] \in 0..255
  BY OctetsIn
<1>6. r = 1 \/ r = 2 \/ r = 3
  OBVIOUS
<1> QED  BY <1>4, <1>5, <1>6 DEF Octet

(* The bytes that k digits stand for.                                      *)
DecodedLength(k) == (6 * k) \div 8

LEMMA DecodedAt ==
  ASSUME NEW t, Len(t) \in Nat, NEW k, Leading(t, k),
         NEW g \in Nat, NEW r \in 1..3, 3 * g + r <= DecodedLength(k)
  PROVE  Decoded(t)[3 * g + r] = Octets(FourDigits(DigitsOf(t), g))[r]
<1>1. DigitsOf(t) \in Seq(Sextet) /\ Len(DigitsOf(t)) = k /\ k \in Nat
  BY DigitsOfIs
<1>2. PICK n \in Nat : n = 3 * g + r
  OBVIOUS
<1>3. n \in 1..(6 * Len(DigitsOf(t))) \div 8
  BY <1>1, <1>2 DEF DecodedLength
<1>4. Decoded(t)[n] = Regrouped(DigitsOf(t), 6, 8, n)
  BY <1>3 DEF Decoded
<1> QED  BY <1>1, <1>2, <1>4, OctetsOfFour

(* Every byte is in a group of three.                                      *)
LEMMA TripleOf ==
  ASSUME NEW n \in Nat, n > 0
  PROVE  \E g \in Nat, r \in 1..3 : n = 3 * g + r
<1>1. (n - 1) \div 3 \in Nat /\ ((n - 1) % 3) + 1 \in 1..3 /\ n = 3 * ((n - 1) \div 3) + (((n - 1) % 3) + 1)
  OBVIOUS
<1> QED  BY <1>1

LEMMA DecodedTyped ==
  ASSUME NEW t, Len(t) \in Nat, NEW k, Leading(t, k)
  PROVE  /\ Decoded(t) \in Seq(Octet) /\ Len(Decoded(t)) = DecodedLength(k) /\ DecodedLength(k) \in Nat
         /\ DOMAIN Decoded(t) = 1..DecodedLength(k)
<1>1. DigitsOf(t) \in Seq(Sextet) /\ Len(DigitsOf(t)) = k /\ k \in Nat
  BY DigitsOfIs
<1>2. DecodedLength(k) \in Nat
  BY <1>1 DEF DecodedLength
<1>3. ASSUME NEW n \in 1..DecodedLength(k)
      PROVE  Decoded(t)[n] \in Octet
  <2>1. n \in Nat /\ n > 0 /\ n <= DecodedLength(k)
    BY <1>2
  <2>2. PICK g \in Nat, r \in 1..3 : n = 3 * g + r
    BY <2>1, TripleOf
  <2>3. Decoded(t)[3 * g + r] = Octets(FourDigits(DigitsOf(t), g))[r]
    <3>1. 3 * g + r <= DecodedLength(k)
      BY <2>1, <2>2
    <3> QED  BY <3>1, DecodedAt
  <2> QED  BY <1>1, <2>2, <2>3, OctetsInGroup
<1>4. Decoded(t) \in [1..DecodedLength(k) -> Octet]
  <2>1. Decoded(t) = [n \in 1..DecodedLength(k) |-> Decoded(t)[n]]
    BY <1>1 DEF Decoded, DecodedLength
  <2> QED  BY <1>3, <2>1
<1> QED  BY <1>2, <1>4, FunctionIsSeq

-----------------------------------------------------------------------------
(* The text of a message, decoded.                                         *)

(* The digits of the text of n bytes.                                      *)
DigitCount(n) == (8 * n + 5) \div 6

(* Those before the padding.                                               *)
LEMMA DigitCountIs ==
  ASSUME NEW n \in Nat
  PROVE  /\ DigitCount(n) \in Nat /\ DigitCount(n) <= EncodedLength(n)
         /\ EncodedLength(n) \in Nat /\ DecodedLength(DigitCount(n)) = n
BY DEF DigitCount, EncodedLength, DecodedLength

LEMMA DigitCountBound ==
  ASSUME NEW n \in Nat, NEW k \in Nat, k > 0
  PROVE  k <= DigitCount(n) <=> 6 * (k - 1) < 8 * n
BY DEF DigitCount

(* They are digits, and the padding is not, so that they are the leading   *)
(* ones.                                                                   *)
LEMMA EncodedDigit ==
  ASSUME NEW s \in Seq(Octet), NEW g \in Nat, NEW r \in 1..4, 4 * g + r <= DigitCount(Len(s))
  PROVE  /\ Encoded(s)[4 * g + r] \in Digit
         /\ Value(Encoded(s)[4 * g + r]) = Sextets(ThreeBytes(s, g))[r]
<1>1. Len(s) \in Nat
  OBVIOUS
<1>2. PICK k \in Nat : k = 4 * g + r /\ k > 0
  OBVIOUS
<1>3. PICK n \in Nat : n = Len(s) /\ k <= DigitCount(n)
  BY <1>1, <1>2
<1>4. k <= EncodedLength(n) /\ 6 * (k - 1) < 8 * n
  <2>1. 6 * (k - 1) < 8 * n
    BY <1>2, <1>3, DigitCountBound
  <2>2. DigitCount(n) \in Nat /\ DigitCount(n) <= EncodedLength(n) /\ EncodedLength(n) \in Nat
    BY DigitCountIs
  <2> QED  BY <1>3, <2>1, <2>2
<1>5. 4 * g + r <= EncodedLength(Len(s)) /\ 6 * (4 * g + r - 1) < 8 * Len(s)
  BY <1>2, <1>3, <1>4
<1>6. Encoded(s)[4 * g + r] = b64_table[Sextets(ThreeBytes(s, g))[r] + 1]
  BY <1>5, EncodedAt
<1> QED  BY <1>6, SextetsIn, ValueOfDigit

LEMMA PadIsNoDigit == Pad \notin Digit
BY TableNotPad DEF Digit

LEMMA EncodedLeading ==
  ASSUME NEW s \in Seq(Octet)
  PROVE  Leading(Encoded(s), DigitCount(Len(s)))
<1> DEFINE t == Encoded(s)
           k == DigitCount(Len(s))
<1>1. Len(s) \in Nat /\ Len(t) = EncodedLength(Len(s)) /\ k \in Nat /\ k <= Len(t) /\ Len(t) \in Nat
  BY EncodedTyped, DigitCountIs
<1>2. ASSUME NEW j \in 1..k PROVE t[j] \in Digit
  <2>1. j \in Nat /\ j > 0 /\ j <= k
    BY <1>1
  <2>2. PICK g \in Nat, r \in 1..4 : j = 4 * g + r
    BY <2>1, GroupOf
  <2>3. 4 * g + r <= DigitCount(Len(s))
    BY <2>1, <2>2
  <2> QED  BY <2>2, <2>3, EncodedDigit
<1>3. ASSUME k < Len(t) PROVE t[k + 1] \notin Digit
  <2>1. k + 1 \in Nat /\ k + 1 > 0 /\ k + 1 <= EncodedLength(Len(s)) /\ ~(k + 1 <= k)
    BY <1>1, <1>3
  <2>2. PICK n \in Nat : n = k + 1 /\ n > 0 /\ n <= EncodedLength(Len(s)) /\ ~(n <= DigitCount(Len(s)))
    BY <2>1
  <2>3. ~(6 * (n - 1) < 8 * Len(s))
    BY <1>1, <2>2, DigitCountBound
  <2>4. PICK g \in Nat, r \in 1..4 : n = 4 * g + r
    BY <2>2, GroupOf
  <2>5. 4 * g + r <= EncodedLength(Len(s)) /\ ~(6 * (4 * g + r - 1) < 8 * Len(s))
    BY <2>2, <2>3, <2>4
  <2>6. t[4 * g + r] = Pad
    BY <2>5, EncodedAt
  <2> QED  BY <2>2, <2>4, <2>6, PadIsNoDigit
<1>4. k \in 0..Len(t)
  BY <1>1
<1> HIDE DEF t, k
<1>5. Leading(t, k)
  BY <1>2, <1>3, <1>4 DEF Leading
<1> QED  BY <1>5 DEF t, k

(* The bits beyond the message are zero, and the digits hold only bits of  *)
(* the message.                                                            *)
LEMMA FillIsZero ==
  ASSUME NEW s \in Seq(Octet), NEW g \in Nat, NEW r \in 1..4,
         3 * g < Len(s), ~(4 * g + r <= DigitCount(Len(s)))
  PROVE  Sextets(ThreeBytes(s, g))[r] = 0
<1>1. PICK n \in Nat : n = Len(s)
  OBVIOUS
<1>2. PICK k \in Nat : k = 4 * g + r /\ k > 0
  OBVIOUS
<1>3. ~(6 * (k - 1) < 8 * n) /\ 3 * g < n
  BY <1>1, <1>2, DigitCountBound
<1>4. (r = 4 /\ n = 3 * g + 2) \/ (r \in {3, 4} /\ n = 3 * g + 1)
  BY <1>2, <1>3
<1>5. CASE r = 4 /\ n = 3 * g + 2
  <2>1. AtOrZero(s, 3 * g + 3) = 0
    BY <1>1, <1>5 DEF AtOrZero
  <2> QED  BY <1>5, <2>1 DEF Sextets, ThreeBytes
<1>6. CASE r \in {3, 4} /\ n = 3 * g + 1
  <2>1. AtOrZero(s, 3 * g + 3) = 0 /\ AtOrZero(s, 3 * g + 2) = 0
    BY <1>1, <1>6 DEF AtOrZero
  <2>2. Sextets(ThreeBytes(s, g))[3] = 0 /\ Sextets(ThreeBytes(s, g))[4] = 0
    BY <2>1 DEF Sextets, ThreeBytes
  <2> QED  BY <1>6, <2>2
<1> QED  BY <1>4, <1>5, <1>6

(* The digits of the text of a message.                                    *)
LEMMA DigitsOfEncoded ==
  ASSUME NEW s \in Seq(Octet), NEW g \in Nat, NEW r \in 1..4, 3 * g < Len(s)
  PROVE  AtOrZero(DigitsOf(Encoded(s)), 4 * g + r) = Sextets(ThreeBytes(s, g))[r]
<1> DEFINE t == Encoded(s)
           d == DigitsOf(t)
           k == DigitCount(Len(s))
<1>1. Len(t) \in Nat /\ Leading(t, k)
  BY EncodedTyped, EncodedLeading
<1> HIDE DEF t, k
<1>2. Len(d) = k /\ k \in Nat /\ \A j \in 1..k : d[j] = Value(t[j])
  BY <1>1, DigitsOfIs
<1> HIDE DEF d
<1>3. PICK n \in Nat : n = 4 * g + r /\ n > 0
  OBVIOUS
<1>4. CASE n <= k
  <2>1. AtOrZero(d, n) = Value(t[n])
    BY <1>2, <1>3, <1>4 DEF AtOrZero
  <2>2. Value(t[n]) = Sextets(ThreeBytes(s, g))[r]
    BY <1>3, <1>4, EncodedDigit DEF t, k
  <2> QED  BY <1>3, <2>1, <2>2 DEF d, t
<1>5. CASE ~(n <= k)
  <2>1. AtOrZero(d, n) = 0
    BY <1>2, <1>5 DEF AtOrZero
  <2>2. Sextets(ThreeBytes(s, g))[r] = 0
    BY <1>3, <1>5, FillIsZero DEF k
  <2> QED  BY <1>3, <2>1, <2>2 DEF d, t
<1> QED  BY <1>4, <1>5

(* Three bytes to four digits and back.                                    *)
LEMMA OctetsOfSextets ==
  ASSUME NEW s \in Seq(Octet), NEW g \in Nat
  PROVE  Octets(Sextets(ThreeBytes(s, g))) = ThreeBytes(s, g)
<1>1. PICK q1 \in Nat, q2 \in Nat, q3 \in Nat : q1 = 3 * g /\ q2 = 3 * g + 1 /\ q3 = 3 * g + 2
  OBVIOUS
<1>2. AtOrZero(s, q1 + 1) \in 0..255 /\ AtOrZero(s, q2 + 1) \in 0..255 /\ AtOrZero(s, q3 + 1) \in 0..255
  BY ByteIn
<1>3. q1 + 1 = 3 * g + 1 /\ q2 + 1 = 3 * g + 2 /\ q3 + 1 = 3 * g + 3
  BY <1>1
<1>4. PICK x1 \in 0..255, x2 \in 0..255, x3 \in 0..255 : ThreeBytes(s, g) = << x1, x2, x3 >>
  BY <1>2, <1>3 DEF ThreeBytes
<1> QED  BY <1>4, SextetsAndOctets, ZenonT(60)

(* A group of digits of the text is made of a group of bytes.              *)
LEMMA FourDigitsOfEncoded ==
  ASSUME NEW s \in Seq(Octet), NEW g \in Nat, 3 * g < Len(s)
  PROVE  FourDigits(DigitsOf(Encoded(s)), g) = Sextets(ThreeBytes(s, g))
<1>1. \A r \in 1..4 : AtOrZero(DigitsOf(Encoded(s)), 4 * g + r) = Sextets(ThreeBytes(s, g))[r]
  BY DigitsOfEncoded
<1>2. PICK d : d = DigitsOf(Encoded(s))
  OBVIOUS
<1>3. PICK v1, v2, v3, v4 : Sextets(ThreeBytes(s, g)) = << v1, v2, v3, v4 >>
  BY DEF Sextets
<1>4. /\ AtOrZero(d, 4 * g + 1) = v1 /\ AtOrZero(d, 4 * g + 2) = v2
      /\ AtOrZero(d, 4 * g + 3) = v3 /\ AtOrZero(d, 4 * g + 4) = v4
  BY <1>1, <1>2, <1>3
<1>5. FourDigits(d, g) = << v1, v2, v3, v4 >>
  BY <1>4 DEF FourDigits
<1> QED  BY <1>2, <1>3, <1>5

(* What base64 stands for: the text of a message is decoded to the         *)
(* message.                                                                *)
THEOREM DecodedOfEncoded == \A s \in Seq(Octet) : Decoded(Encoded(s)) = s
<1> SUFFICES ASSUME NEW s \in Seq(Octet) PROVE Decoded(Encoded(s)) = s
  OBVIOUS
<1>1. /\ Len(Encoded(s)) \in Nat /\ Leading(Encoded(s), DigitCount(Len(s)))
      /\ Len(s) \in Nat /\ DecodedLength(DigitCount(Len(s))) = Len(s)
  <2>1. Len(s) \in Nat
    OBVIOUS
  <2>2. DecodedLength(DigitCount(Len(s))) = Len(s)
    BY <2>1, DigitCountIs
  <2>3. Len(Encoded(s)) \in Nat
    BY EncodedTyped
  <2> QED  BY <2>1, <2>2, <2>3, EncodedLeading
<1>2. Decoded(Encoded(s)) \in Seq(Octet) /\ Len(Decoded(Encoded(s))) = Len(s)
  BY <1>1, DecodedTyped
<1>3. ASSUME NEW n \in 1..Len(s)
      PROVE  Decoded(Encoded(s))[n] = s[n]
  <2>1. n \in Nat /\ n > 0 /\ n <= Len(s)
    BY <1>1
  <2>2. PICK g \in Nat, r \in 1..3 : n = 3 * g + r
    BY <2>1, TripleOf
  <2>3. 3 * g + r <= DecodedLength(DigitCount(Len(s))) /\ 3 * g < Len(s) /\ 3 * g + r <= Len(s)
    BY <1>1, <2>1, <2>2
  <2>4. Decoded(Encoded(s))[3 * g + r] = Octets(FourDigits(DigitsOf(Encoded(s)), g))[r]
    BY <1>1, <2>3, DecodedAt
  <2>5. Octets(FourDigits(DigitsOf(Encoded(s)), g)) = ThreeBytes(s, g)
    BY <2>3, FourDigitsOfEncoded, OctetsOfSextets
  <2>6. ThreeBytes(s, g)[r] = s[3 * g + r]
    <3>1. r = 1 \/ r = 2 \/ r = 3
      OBVIOUS
    <3>2. AtOrZero(s, 3 * g + r) = s[3 * g + r]
      BY <2>3 DEF AtOrZero
    <3> QED  BY <3>1, <3>2 DEF ThreeBytes
  <2> QED  BY <2>2, <2>4, <2>5, <2>6
<1> QED
  <2>1. PICK d \in Seq(Octet) : d = Decoded(Encoded(s)) /\ Len(d) = Len(s) /\ \A n \in 1..Len(s) : d[n] = s[n]
    BY <1>2, <1>3
  <2>2. d = s
    BY <2>1
  <2> QED  BY <2>1, <2>2

-----------------------------------------------------------------------------
(* The encoding loop: groups of three, and the rest.                       *)

(* o is the beginning of e.                                                *)
Begins(o, e, T) == o \in Seq(T) /\ \A n \in 1..Len(o) : o[n] = e[n]

(* A beginning grows with what comes next.                                 *)
LEMMA LongerBegins ==
  ASSUME NEW T, NEW o, NEW e, Begins(o, e, T), NEW v \in Seq(T),
         \A r \in 1..Len(v) : v[r] = e[Len(o) + r]
  PROVE  Begins(o \o v, e, T) /\ Len(o \o v) = Len(o) + Len(v)
<1>1. o \in Seq(T) /\ Len(o) \in Nat /\ Len(v) \in Nat
  BY DEF Begins
<1>2. PICK u : u = o \o v
  OBVIOUS
<1>3. u \in Seq(T) /\ Len(u) = Len(o) + Len(v)
  BY <1>1, <1>2
<1>4. ASSUME NEW n \in 1..Len(u) PROVE u[n] = e[n]
  <2>1. n \in Nat /\ n > 0 /\ n <= Len(o) + Len(v)
    BY <1>1, <1>3
  <2>2. CASE n <= Len(o)
    <3>1. u[n] = o[n]
      BY <1>1, <1>2, <2>1, <2>2
    <3>2. n \in 1..Len(o)
      BY <2>1, <2>2
    <3> QED  BY <3>1, <3>2 DEF Begins
  <2>3. CASE ~(n <= Len(o))
    <3>1. PICK r \in Nat : r = n - Len(o)
      BY <1>1, <2>1, <2>3
    <3>2. r \in 1..Len(v) /\ Len(o) + r = n
      BY <1>1, <2>1, <2>3, <3>1
    <3>3. u[n] = v[r]
      BY <1>1, <1>2, <2>1, <2>3, <3>1
    <3> QED  BY <3>3, <3>2
  <2> QED  BY <2>2, <2>3
<1> QED  BY <1>2, <1>3, <1>4 DEF Begins

(* What begins e and is as long is e.                                      *)
LEMMA WholeOf ==
  ASSUME NEW T, NEW o, NEW e \in Seq(T), Begins(o, e, T), Len(o) = Len(e)
  PROVE  o = e
<1>1. o \in Seq(T) /\ \A n \in 1..Len(e) : o[n] = e[n]
  BY DEF Begins
<1> QED  BY <1>1

(* The digits of a group, by its place in the text.                        *)
LEMMA DigitsAre ==
  ASSUME NEW x1 \in 0..255, NEW x2 \in 0..255, NEW x3 \in 0..255
  PROVE  LET d == Digits(<< x1, x2, x3 >>)
             s == Sextets(<< x1, x2, x3 >>)
         IN /\ \A r \in 1..4 : d[r] = b64_table[s[r] + 1]
            /\ d \in [1..4 -> Digit]
<1>1. \A r \in 1..4 : Digits(<< x1, x2, x3 >>)[r] = b64_table[Sextets(<< x1, x2, x3 >>)[r] + 1]
  BY DEF Digits
<1>2. ASSUME NEW r \in 1..4
      PROVE  b64_table[Sextets(<< x1, x2, x3 >>)[r] + 1] \in Digit
  <2>1. r = 1 \/ r = 2 \/ r = 3 \/ r = 4
    OBVIOUS
  <2>2. Sextets(<< x1, x2, x3 >>)[r] \in 0..63
    BY <2>1, SextetsAndOctets, ZenonT(60)
  <2> QED  BY <2>2, ValueOfDigit
<1>3. Digits(<< x1, x2, x3 >>) = [r \in 1..4 |-> b64_table[Sextets(<< x1, x2, x3 >>)[r] + 1]]
  BY DEF Digits
<1> QED  BY <1>1, <1>2, <1>3

LEMMA BytesOfGroup ==
  ASSUME NEW s \in Seq(Octet), NEW g \in Nat
  PROVE  /\ AtOrZero(s, 3 * g + 1) \in 0..255
         /\ AtOrZero(s, 3 * g + 2) \in 0..255
         /\ AtOrZero(s, 3 * g + 3) \in 0..255
<1>1. PICK q1 \in Nat, q2 \in Nat, q3 \in Nat : q1 = 3 * g /\ q2 = 3 * g + 1 /\ q3 = 3 * g + 2
  OBVIOUS
<1>2. AtOrZero(s, q1 + 1) \in 0..255 /\ AtOrZero(s, q2 + 1) \in 0..255 /\ AtOrZero(s, q3 + 1) \in 0..255
  BY ByteIn
<1>3. q1 + 1 = 3 * g + 1 /\ q2 + 1 = 3 * g + 2 /\ q3 + 1 = 3 * g + 3
  BY <1>1
<1> QED  BY <1>2, <1>3

LEMMA DigitsOfGroup ==
  ASSUME NEW s \in Seq(Octet), NEW g \in Nat
  PROVE  LET t == ThreeBytes(s, g)
         IN /\ \A r \in 1..4 : Digits(t)[r] = b64_table[Sextets(t)[r] + 1]
            /\ Digits(t) \in [1..4 -> Digit]
<1>1. PICK x1 \in 0..255 : x1 = AtOrZero(s, 3 * g + 1)
  BY BytesOfGroup
<1>2. PICK x2 \in 0..255 : x2 = AtOrZero(s, 3 * g + 2)
  BY BytesOfGroup
<1>3. PICK x3 \in 0..255 : x3 = AtOrZero(s, 3 * g + 3)
  BY BytesOfGroup
<1>4. ThreeBytes(s, g) = << x1, x2, x3 >>
  BY <1>1, <1>2, <1>3 DEF ThreeBytes
<1>5. /\ \A r \in 1..4 : Digits(<< x1, x2, x3 >>)[r] = b64_table[Sextets(<< x1, x2, x3 >>)[r] + 1]
      /\ Digits(<< x1, x2, x3 >>) \in [1..4 -> Digit]
  BY DigitsAre
<1> QED  BY <1>4, <1>5

(* A full group becomes the next four characters.                          *)
LEMMA GroupEncoded ==
  ASSUME NEW s \in Seq(Octet), NEW g \in Nat, 3 * g + 3 <= Len(s), NEW t, t = ThreeBytes(s, g)
  PROVE  Digits(t) \in [1..4 -> Letter] /\ \A r \in 1..4 : Digits(t)[r] = Encoded(s)[4 * g + r]
<1>1. /\ \A r \in 1..4 : Digits(t)[r] = b64_table[Sextets(t)[r] + 1]
      /\ Digits(t) \in [1..4 -> Digit]
  BY DigitsOfGroup
<1>2. ASSUME NEW r \in 1..4 PROVE Digits(t)[r] = Encoded(s)[4 * g + r]
  <2>1. PICK n \in Nat : n = Len(s)
    OBVIOUS
  <2>2. 4 * g + r <= EncodedLength(n)
    BY <2>1 DEF EncodedLength
  <2>3. 6 * (4 * g + r - 1) < 8 * n
    BY <2>1
  <2>4. Encoded(s)[4 * g + r] = b64_table[Sextets(ThreeBytes(s, g))[r] + 1]
    BY <2>1, <2>2, <2>3, EncodedAt
  <2> QED  BY <1>1, <2>4
<1>3. Digits(t) \in [1..4 -> Letter]
  BY <1>1 DEF Letter
<1> QED  BY <1>2, <1>3

(* So does the rest, with its padding.                                     *)
LEMMA RestEncoded ==
  ASSUME NEW s \in Seq(Octet), NEW g \in Nat, NEW t \in Seq(Octet), Len(t) \in {1, 2},
         3 * g + Len(t) = Len(s), \A k \in 1..Len(t) : t[k] = s[3 * g + k]
  PROVE  Rest(t) \in [1..4 -> Letter] /\ \A r \in 1..4 : Rest(t)[r] = Encoded(s)[4 * g + r]
<1>1. PICK m \in {1, 2} : m = Len(t)
  OBVIOUS
<1>2. PICK n \in Nat : n = Len(s) /\ m = Len(t) /\ n = 3 * g + m
  BY <1>1
<1> DEFINE z == [k \in 1..3 |-> IF k <= Len(t) THEN t[k] ELSE 0]
<1>3. z = ThreeBytes(s, g)
  <2>1. /\ AtOrZero(s, 3 * g + 1) = z[1]
        /\ AtOrZero(s, 3 * g + 2) = z[2]
        /\ AtOrZero(s, 3 * g + 3) = z[3]
    BY <1>2 DEF AtOrZero
  <2>2. z = << z[1], z[2], z[3] >>
    OBVIOUS
  <2> QED  BY <2>1, <2>2 DEF ThreeBytes
<1> HIDE DEF z
<1>4. /\ \A r \in 1..4 : Digits(z)[r] = b64_table[Sextets(z)[r] + 1]
      /\ Digits(z) \in [1..4 -> Digit]
  BY <1>3, DigitsOfGroup
<1>5. Rest(t) = [k \in 1..4 |-> IF k <= m + 1 THEN Digits(z)[k] ELSE Pad]
  BY <1>2 DEF Rest, z
<1>6. ASSUME NEW r \in 1..4 PROVE Rest(t)[r] = Encoded(s)[4 * g + r]
  <2>1. 4 * g + r <= EncodedLength(n)
    <3>1. (3 * g + m + 2) \div 3 = g + 1
      OBVIOUS
    <3>2. EncodedLength(n) = 4 * (g + 1)
      BY <1>2, <3>1 DEF EncodedLength
    <3> QED  BY <3>2
  <2>2. 6 * (4 * g + r - 1) < 8 * n <=> r <= m + 1
    BY <1>2
  <2>3. Encoded(s)[4 * g + r] = IF r <= m + 1 THEN b64_table[Sextets(ThreeBytes(s, g))[r] + 1] ELSE Pad
    BY <1>2, <2>1, <2>2, EncodedAt
  <2> QED  BY <1>3, <1>4, <1>5, <2>3
<1>7. Rest(t) \in [1..4 -> Letter]
  BY <1>4, <1>5 DEF Letter
<1> QED  BY <1>6, <1>7

(* What an encoding has taken, kept and written: groups, or everything.    *)
EncodeWrites(s, p, t, o) ==
  /\ p \in Nat /\ p <= Len(s)
  /\ t \in Seq(Octet) /\ Len(t) <= 2 /\ Len(t) <= p
  /\ \A k \in 1..Len(t) : t[k] = s[p - Len(t) + k]
  /\ Begins(o, Encoded(s), Letter)
EncodeGroups(s, p, t, o) ==
  \/ \E g \in Nat : p - Len(t) = 3 * g /\ Len(o) = 4 * g
  \/ p = Len(s) /\ t = << >> /\ Len(o) = EncodedLength(Len(s))
EncodeGood(s, p, t, o) == EncodeWrites(s, p, t, o) /\ EncodeGroups(s, p, t, o)

(* That holds at the call.                                                 *)
LEMMA EncodeStarts ==
  ASSUME NEW s \in Seq(Octet)
  PROVE  EncodeGood(s, 0, << >>, << >>)
<1>1. Begins(<< >>, Encoded(s), Letter)
  BY DEF Begins
<1>2. EncodeWrites(s, 0, << >>, << >>)
  <2>1. Len(s) \in Nat /\ << >> \in Seq(Octet) /\ Len(<< >>) = 0
    OBVIOUS
  <2> QED  BY <1>1, <2>1 DEF EncodeWrites
<1>3. EncodeGroups(s, 0, << >>, << >>)
  <2>1. Len(<< >>) = 0
    OBVIOUS
  <2>2. 0 - 0 = 3 * 0 /\ 0 = 4 * 0
    OBVIOUS
  <2>3. 0 \in Nat /\ 0 - Len(<< >>) = 3 * 0 /\ Len(<< >>) = 4 * 0
    BY <2>1, <2>2
  <2> QED  BY <2>3 DEF EncodeGroups
<1> QED  BY <1>2, <1>3 DEF EncodeGood

(* The taken characters with one more are the characters up to there.      *)
LEMMA TakenIs ==
  ASSUME NEW T, NEW t \in Seq(T), NEW s, NEW p \in Nat, Len(t) <= p, s[p + 1] \in T,
         \A k \in 1..Len(t) : t[k] = s[p - Len(t) + k],
         NEW u, u = Append(t, s[p + 1])
  PROVE  /\ u \in Seq(T) /\ Len(u) = Len(t) + 1
         /\ \A k \in 1..Len(u) : u[k] = s[(p + 1) - Len(u) + k]
<1>1. u \in Seq(T) /\ Len(u) = Len(t) + 1 /\ Len(t) \in Nat
  OBVIOUS
<1>2. ASSUME NEW k \in 1..Len(u)
      PROVE  u[k] = s[(p + 1) - Len(u) + k]
  <2>1. k \in Nat /\ k > 0 /\ k <= Len(t) + 1 /\ (p + 1) - Len(u) + k = p - Len(t) + k
    BY <1>1
  <2>2. CASE k <= Len(t)
    <3>1. u[k] = t[k] /\ k \in 1..Len(t)
      BY <1>1, <2>1, <2>2
    <3> QED  BY <2>1, <3>1
  <2>3. CASE ~(k <= Len(t))
    <3>1. k = Len(t) + 1 /\ p - Len(t) + k = p + 1
      BY <1>1, <2>1, <2>3, SMTT(60)
    <3>2. u[Len(t) + 1] = s[p + 1]
      BY <1>1
    <3> QED  BY <2>1, <3>1, <3>2
  <2> QED  BY <2>2, <2>3
<1> QED  BY <1>1, <1>2

(* It is kept when a byte is taken.                                        *)
LEMMA NextByte ==
  ASSUME NEW s \in Seq(Octet), NEW p, NEW t, NEW o, EncodeWrites(s, p, t, o), p < Len(s)
  PROVE  s[p + 1] \in Octet
<1>1. p + 1 \in 1..Len(s)
  BY DEF EncodeWrites
<1> QED  BY <1>1

LEMMA TakeByte ==
  ASSUME NEW s \in Seq(Octet), NEW p, NEW t, NEW o, EncodeGood(s, p, t, o), p < Len(s), Len(t) < 2
  PROVE  EncodeGood(s, p + 1, Append(t, s[p + 1]), o)
<1>1. EncodeWrites(s, p, t, o) /\ EncodeGroups(s, p, t, o)
  BY DEF EncodeGood
<1>2. s[p + 1] \in Octet
  BY <1>1, NextByte
<1>3. PICK u : u = Append(t, s[p + 1])
  OBVIOUS
<1>4. p \in Nat /\ t \in Seq(Octet) /\ Len(t) <= p /\ Len(s) \in Nat /\ Len(t) \in Nat
  BY <1>1 DEF EncodeWrites
<1>5. /\ u \in Seq(Octet) /\ Len(u) = Len(t) + 1
      /\ \A k \in 1..Len(u) : u[k] = s[(p + 1) - Len(u) + k]
  <2>1. \A k \in 1..Len(t) : t[k] = s[p - Len(t) + k]
    BY <1>1 DEF EncodeWrites
  <2> QED  BY <1>2, <1>3, <1>4, <2>1, TakenIs
<1>6. EncodeWrites(s, p + 1, u, o)
  <2>1. p + 1 \in Nat /\ p + 1 <= Len(s) /\ Len(u) <= 2 /\ Len(u) <= p + 1
    BY <1>4, <1>5
  <2>2. Begins(o, Encoded(s), Letter)
    BY <1>1 DEF EncodeWrites
  <2> QED  BY <1>5, <2>1, <2>2 DEF EncodeWrites
<1>7. EncodeGroups(s, p + 1, u, o)
  <2>1. (p + 1) - Len(u) = p - Len(t)
    BY <1>4, <1>5
  <2>2. PICK g \in Nat : p - Len(t) = 3 * g /\ Len(o) = 4 * g
    BY <1>1, <1>4 DEF EncodeGroups
  <2> QED  BY <2>1, <2>2 DEF EncodeGroups
<1> QED  BY <1>3, <1>6, <1>7 DEF EncodeGood

(* It is kept when a group of three bytes is written.                      *)
LEMMA WriteGroup ==
  ASSUME NEW s \in Seq(Octet), NEW p, NEW t, NEW o, EncodeGood(s, p, t, o), p < Len(s), ~(Len(t) < 2)
  PROVE  /\ EncodeGood(s, p + 1, << >>, o \o Digits(Append(t, s[p + 1])))
         /\ Len(o \o Digits(Append(t, s[p + 1]))) = Len(o) + 4
         /\ Len(o) + 4 <= EncodedLength(Len(s))
<1>1. EncodeWrites(s, p, t, o) /\ EncodeGroups(s, p, t, o)
  BY DEF EncodeGood
<1>2. s[p + 1] \in Octet
  BY <1>1, NextByte
<1>3. PICK u : u = Append(t, s[p + 1])
  OBVIOUS
<1>4. p \in Nat /\ t \in Seq(Octet) /\ Len(t) <= p /\ Len(t) <= 2
  BY <1>1 DEF EncodeWrites
<1>5. p \in Nat /\ t \in Seq(Octet) /\ Len(s) \in Nat /\ Len(t) = 2
  <2>1. Len(t) \in Nat /\ Len(s) \in Nat
    BY <1>4
  <2>2. PICK m \in Nat : m = Len(t)
    BY <2>1
  <2>3. m <= 2 /\ ~(m < 2)
    BY <1>4, <2>2
  <2>4. m = 2
    BY <2>3
  <2> QED  BY <1>4, <2>1, <2>2, <2>4
<1>6. u \in Seq(Octet) /\ Len(u) = 3 /\ \A k \in 1..Len(u) : u[k] = s[(p + 1) - Len(u) + k]
  <2>1. \A k \in 1..Len(t) : t[k] = s[p - Len(t) + k]
    BY <1>1 DEF EncodeWrites
  <2>2. p \in Nat /\ t \in Seq(Octet) /\ Len(t) <= p
    BY <1>4
  <2>3. /\ u \in Seq(Octet) /\ Len(u) = Len(t) + 1
        /\ \A k \in 1..Len(u) : u[k] = s[(p + 1) - Len(u) + k]
    BY <1>2, <1>3, <2>1, <2>2, TakenIs
  <2> QED  BY <1>5, <2>3
<1>7. PICK g \in Nat : p - Len(t) = 3 * g /\ Len(o) = 4 * g
  BY <1>1, <1>5 DEF EncodeGroups
<1>8. p + 1 = 3 * g + 3 /\ 3 * g + 3 <= Len(s)
  BY <1>5, <1>7
<1>9. u = ThreeBytes(s, g)
  <2>1. u[1] = s[3 * g + 1] /\ u[2] = s[3 * g + 2] /\ u[3] = s[3 * g + 3]
    <3>1. \A k \in 1..3 : u[k] = s[3 * g + k]
      BY <1>6, <1>8, SMTT(60)
    <3> QED  BY <3>1
  <2>2. u = << u[1], u[2], u[3] >>
    BY <1>6
  <2>3. /\ AtOrZero(s, 3 * g + 1) = s[3 * g + 1]
        /\ AtOrZero(s, 3 * g + 2) = s[3 * g + 2]
        /\ AtOrZero(s, 3 * g + 3) = s[3 * g + 3]
    BY <1>5, <1>8 DEF AtOrZero
  <2> QED  BY <2>1, <2>2, <2>3 DEF ThreeBytes
<1>10. Digits(u) \in [1..4 -> Letter] /\ \A r \in 1..4 : Digits(u)[r] = Encoded(s)[4 * g + r]
  BY <1>8, <1>9, GroupEncoded
<1>11. PICK v : v = Digits(u) /\ v \in Seq(Letter) /\ Len(v) = 4
  BY <1>10, FunctionIsSeq
<1>12. Begins(o, Encoded(s), Letter)
  BY <1>1 DEF EncodeWrites
<1>13. Begins(o \o v, Encoded(s), Letter) /\ Len(o \o v) = Len(o) + Len(v)
  <2>1. \A r \in 1..Len(v) : v[r] = Encoded(s)[Len(o) + r]
    BY <1>7, <1>10, <1>11
  <2>2. v \in Seq(Letter)
    BY <1>11
  <2> QED  BY <1>12, <2>1, <2>2, LongerBegins
<1>14. EncodeWrites(s, p + 1, << >>, o \o v)
  <2>1. p + 1 \in Nat /\ p + 1 <= Len(s) /\ << >> \in Seq(Octet) /\ Len(<< >>) = 0
    BY <1>5
  <2> QED  BY <1>13, <2>1 DEF EncodeWrites
<1>15. EncodeGroups(s, p + 1, << >>, o \o v)
  <2>1. g + 1 \in Nat /\ (p + 1) - Len(<< >>) = 3 * (g + 1) /\ Len(o \o v) = 4 * (g + 1)
    BY <1>7, <1>8, <1>11, <1>13
  <2> QED  BY <2>1 DEF EncodeGroups
<1>16. Len(o) + 4 <= EncodedLength(Len(s))
  BY <1>5, <1>7, <1>8 DEF EncodedLength
<1> QED  BY <1>3, <1>11, <1>13, <1>14, <1>15, <1>16 DEF EncodeGood

(* The rest, with its padding, makes the text complete.                    *)
LEMMA WriteRest ==
  ASSUME NEW s \in Seq(Octet), NEW p, NEW t, NEW o, EncodeGood(s, p, t, o), p = Len(s), t # << >>
  PROVE  /\ EncodeGood(s, p, << >>, o \o Rest(t))
         /\ Len(o \o Rest(t)) = Len(o) + 4
         /\ Len(o) + 4 = EncodedLength(Len(s))
<1>1. EncodeWrites(s, p, t, o) /\ EncodeGroups(s, p, t, o)
  BY DEF EncodeGood
<1>2. p \in Nat /\ t \in Seq(Octet) /\ Len(t) <= p /\ Len(s) \in Nat /\ Len(t) \in {1, 2}
  <2>1. p \in Nat /\ t \in Seq(Octet) /\ Len(t) <= p /\ Len(t) <= 2
    BY <1>1 DEF EncodeWrites
  <2>2. Len(t) \in Nat /\ Len(t) # 0 /\ Len(s) \in Nat
    BY <2>1
  <2>3. PICK m \in Nat : m = Len(t)
    BY <2>2
  <2>4. m <= 2 /\ m # 0
    BY <2>1, <2>2, <2>3
  <2>5. Len(t) = 1 \/ Len(t) = 2
    BY <2>3, <2>4
  <2> QED  BY <2>1, <2>2, <2>5
<1>3. PICK g \in Nat : p - Len(t) = 3 * g /\ Len(o) = 4 * g
  BY <1>1 DEF EncodeGroups
<1>4. 3 * g + Len(t) = Len(s)
  BY <1>2, <1>3
<1>5. \A k \in 1..Len(t) : t[k] = s[3 * g + k]
  BY <1>1, <1>3 DEF EncodeWrites
<1>6. Rest(t) \in [1..4 -> Letter] /\ \A r \in 1..4 : Rest(t)[r] = Encoded(s)[4 * g + r]
  BY <1>2, <1>4, <1>5, RestEncoded
<1>7. PICK v : v = Rest(t) /\ v \in Seq(Letter) /\ Len(v) = 4
  BY <1>6, FunctionIsSeq
<1>8. Begins(o, Encoded(s), Letter)
  BY <1>1 DEF EncodeWrites
<1>9. Begins(o \o v, Encoded(s), Letter) /\ Len(o \o v) = Len(o) + Len(v)
  <2>1. \A r \in 1..Len(v) : v[r] = Encoded(s)[Len(o) + r]
    BY <1>3, <1>6, <1>7
  <2>2. v \in Seq(Letter)
    BY <1>7
  <2> QED  BY <1>8, <2>1, <2>2, LongerBegins
<1>10. EncodedLength(Len(s)) = 4 * g + 4
  <2>1. PICK m \in {1, 2} : m = Len(t)
    BY <1>2
  <2>2. (3 * g + m + 2) \div 3 = g + 1
    OBVIOUS
  <2> QED  BY <1>4, <2>1, <2>2 DEF EncodedLength
<1>11. EncodeWrites(s, p, << >>, o \o v)
  <2>1. p <= Len(s) /\ << >> \in Seq(Octet) /\ Len(<< >>) = 0
    BY <1>2
  <2> QED  BY <1>2, <1>9, <2>1 DEF EncodeWrites
<1>12. EncodeGroups(s, p, << >>, o \o v)
  BY <1>3, <1>7, <1>9, <1>10 DEF EncodeGroups
<1> QED  BY <1>3, <1>7, <1>9, <1>10, <1>11, <1>12 DEF EncodeGood

(* Without a rest it is complete at the end of the loop.                   *)
LEMMA EncodeEnds ==
  ASSUME NEW s \in Seq(Octet), NEW p, NEW t, NEW o, EncodeGood(s, p, t, o), p = Len(s), t = << >>
  PROVE  o = Encoded(s)
<1>1. EncodeWrites(s, p, t, o) /\ EncodeGroups(s, p, t, o)
  BY DEF EncodeGood
<1>2. Encoded(s) \in Seq(Letter) /\ Len(Encoded(s)) = EncodedLength(Len(s)) /\ Begins(o, Encoded(s), Letter)
  BY <1>1, EncodedTyped DEF EncodeWrites
<1>3. Len(o) = EncodedLength(Len(s))
  <2>1. CASE \E g \in Nat : p - Len(t) = 3 * g /\ Len(o) = 4 * g
    <3>1. PICK g \in Nat : p - Len(t) = 3 * g /\ Len(o) = 4 * g
      BY <2>1
    <3>2. Len(s) = 3 * g
      BY <3>1
    <3>3. (3 * g + 2) \div 3 = g
      OBVIOUS
    <3> QED  BY <3>1, <3>2, <3>3 DEF EncodedLength
  <2> QED  BY <1>1, <2>1 DEF EncodeGroups
<1> QED  BY <1>2, <1>3, WholeOf

-----------------------------------------------------------------------------
(* The decoding loop: groups of four, and the rest.                        *)

(* t is what s holds after its first q.                                    *)
Holds(t, s, q) == \A j \in 1..Len(t) : t[j] = s[q + j]

LEMMA HoldsNothing == \A s, q : Holds(<< >>, s, q)
BY DEF Holds

LEMMA TakenHolds ==
  ASSUME NEW t \in Seq(Digit), NEW s, NEW q \in Nat, NEW c \in Digit, c = s[q + Len(t) + 1], Holds(t, s, q)
  PROVE  Append(t, c) \in Seq(Digit) /\ Len(Append(t, c)) = Len(t) + 1 /\ Holds(Append(t, c), s, q)
<1>1. PICK u : u = Append(t, c)
  OBVIOUS
<1>2. u \in Seq(Digit) /\ Len(u) = Len(t) + 1 /\ Len(t) \in Nat
  BY <1>1
<1>3. ASSUME NEW k \in 1..Len(u)
      PROVE  u[k] = s[q + k]
  <2>1. k \in Nat /\ k > 0 /\ k <= Len(t) + 1
    BY <1>2
  <2>2. CASE k <= Len(t)
    <3>1. u[k] = t[k] /\ k \in 1..Len(t)
      BY <1>1, <1>2, <2>1, <2>2
    <3> QED  BY <3>1 DEF Holds
  <2>3. CASE ~(k <= Len(t))
    <3>1. k = Len(t) + 1 /\ q + k = q + Len(t) + 1
      BY <1>2, <2>1, <2>3
    <3>2. u[Len(t) + 1] = c
      BY <1>1, <1>2
    <3> QED  BY <3>1, <3>2
  <2> QED  BY <2>2, <2>3
<1>4. Holds(u, s, q)
  BY <1>3 DEF Holds
<1> QED  BY <1>1, <1>2, <1>4

(* What a decoding has taken of the k digits, kept and written.            *)
DecodeWrites(s, k, p, t, o) ==
  /\ p \in Nat /\ p <= k
  /\ t \in Seq(Digit) /\ Len(t) <= 3 /\ Len(t) <= p
  /\ Holds(t, s, p - Len(t))
  /\ Begins(o, Decoded(s), Octet)
DecodeGroups(k, p, t, o) ==
  \/ \E g \in Nat : p - Len(t) = 4 * g /\ Len(o) = 3 * g
  \/ p = k /\ t = << >> /\ Len(o) = DecodedLength(k)
DecodeGood(s, k, p, t, o) == DecodeWrites(s, k, p, t, o) /\ DecodeGroups(k, p, t, o)

(* A group, complete or the last one, stands for the next bytes.           *)
LEMMA GroupDecoded ==
  ASSUME NEW s, Len(s) \in Nat, NEW k, Leading(s, k),
         NEW g \in Nat, NEW t \in Seq(Digit), Len(t) <= 4, 4 * g + Len(t) <= k,
         Len(t) = 4 \/ 4 * g + Len(t) = k,
         Holds(t, s, 4 * g)
  PROVE  /\ Group(t) = Octets(FourDigits(DigitsOf(s), g))
         /\ \A r \in 1..3 : Group(t)[r] \in Octet
         /\ \A r \in 1..3 : 3 * g + r <= DecodedLength(k) => Group(t)[r] = Decoded(s)[3 * g + r]
<1>1. PICK d : d = DigitsOf(s)
  OBVIOUS
<1>2. d \in Seq(Sextet) /\ Len(d) = k /\ k \in Nat /\ \A j \in 1..k : d[j] = Value(s[j])
  BY <1>1, DigitsOfIs
<1>3. PICK m \in Nat : m = Len(t)
  OBVIOUS
<1>4. m \in 0..4 /\ m = Len(t) /\ 4 * g + m <= k /\ (m = 4 \/ 4 * g + m = k)
  BY <1>3
<1>5. ASSUME NEW r \in 1..4
      PROVE  AtOrZero(d, 4 * g + r) = IF r <= Len(t) THEN Value(t[r]) ELSE 0
  <2>1. CASE r <= m
    <3>1. PICK n \in Nat : n = 4 * g + r
      OBVIOUS
    <3>2. n \in 1..k
      BY <1>2, <1>4, <2>1, <3>1
    <3>3. d[n] = Value(s[n]) /\ n <= Len(d)
      BY <1>2, <3>2
    <3>4. t[r] = s[4 * g + r]
      <4>1. r \in 1..Len(t)
        BY <1>4, <2>1
      <4> QED  BY <4>1 DEF Holds
    <3> QED  BY <1>4, <2>1, <3>1, <3>3, <3>4 DEF AtOrZero
  <2>2. CASE ~(r <= m)
    <3>1. ~(4 * g + r <= k)
      BY <1>2, <1>4, <2>2
    <3> QED  BY <1>2, <1>4, <2>2, <3>1 DEF AtOrZero
  <2> QED  BY <2>1, <2>2
<1> DEFINE z == [j \in 1..4 |-> IF j <= Len(t) THEN Value(t[j]) ELSE 0]
<1>6. z = FourDigits(d, g)
  <2>1. z = << z[1], z[2], z[3], z[4] >>
    OBVIOUS
  <2>2. /\ z[1] = AtOrZero(d, 4 * g + 1) /\ z[2] = AtOrZero(d, 4 * g + 2)
        /\ z[3] = AtOrZero(d, 4 * g + 3) /\ z[4] = AtOrZero(d, 4 * g + 4)
    BY <1>5
  <2> HIDE DEF z
  <2> QED  BY <2>1, <2>2 DEF FourDigits
<1>7. Group(t) = Octets(FourDigits(DigitsOf(s), g))
  BY <1>1, <1>6 DEF Group
<1>8. ASSUME NEW r \in 1..3 PROVE Group(t)[r] \in Octet
  BY <1>1, <1>2, <1>7, OctetsInGroup
<1>9. ASSUME NEW r \in 1..3, 3 * g + r <= DecodedLength(k)
      PROVE  Group(t)[r] = Decoded(s)[3 * g + r]
  <2>1. Decoded(s)[3 * g + r] = Octets(FourDigits(DigitsOf(s), g))[r]
    BY <1>9, DecodedAt
  <2> QED  BY <1>7, <2>1
<1> QED  BY <1>7, <1>8, <1>9

(* What a decoding has taken and written holds at the call.                *)
LEMMA DecodeStarts ==
  ASSUME NEW s, NEW k \in Nat
  PROVE  DecodeGood(s, k, 0, << >>, << >>)
<1>1. Len(<< >>) = 0 /\ << >> \in Seq(Digit)
  OBVIOUS
<1>2. Begins(<< >>, Decoded(s), Octet)
  BY DEF Begins
<1>3. DecodeWrites(s, k, 0, << >>, << >>)
  BY <1>1, <1>2, HoldsNothing DEF DecodeWrites
<1>4. DecodeGroups(k, 0, << >>, << >>)
  <2>1. 0 - 0 = 4 * 0 /\ 0 = 3 * 0
    OBVIOUS
  <2>2. 0 \in Nat /\ 0 - Len(<< >>) = 4 * 0 /\ Len(<< >>) = 3 * 0
    BY <1>1, <2>1
  <2> QED  BY <2>2 DEF DecodeGroups
<1> QED  BY <1>3, <1>4 DEF DecodeGood

(* There are more digits exactly before the last of them.                  *)
LEMMA MoreIs ==
  ASSUME NEW s, Len(s) \in Nat, NEW k, Leading(s, k), NEW p \in Nat, p <= k
  PROVE  (p < Len(s) /\ s[p + 1] \in Digit) <=> p < k
<1>1. k \in Nat /\ k <= Len(s) /\ \A j \in 1..k : s[j] \in Digit
  BY DEF Leading
<1>2. ASSUME p < k PROVE p < Len(s) /\ s[p + 1] \in Digit
  <2>1. p + 1 \in 1..k
    BY <1>1, <1>2
  <2> QED  BY <1>1, <1>2, <2>1
<1>3. ASSUME ~(p < k), p < Len(s) PROVE s[p + 1] \notin Digit
  <2>1. p = k
    BY <1>1, <1>3
  <2> QED  BY <1>3, <2>1 DEF Leading
<1> QED  BY <1>2, <1>3

(* It is kept when a digit is taken.                                       *)
LEMMA TakeDigit ==
  ASSUME NEW s, NEW k \in Nat, NEW p, NEW t, NEW o, DecodeGood(s, k, p, t, o),
         p < k, s[p + 1] \in Digit, Len(t) < 3
  PROVE  DecodeGood(s, k, p + 1, Append(t, s[p + 1]), o)
<1>1. DecodeWrites(s, k, p, t, o) /\ DecodeGroups(k, p, t, o)
  BY DEF DecodeGood
<1>2. PICK u : u = Append(t, s[p + 1])
  OBVIOUS
<1>3. p \in Nat /\ t \in Seq(Digit) /\ Len(t) <= p /\ Len(t) \in Nat
  BY <1>1 DEF DecodeWrites
<1>4. /\ u \in Seq(Digit) /\ Len(u) = Len(t) + 1
      /\ Holds(u, s, (p + 1) - Len(u))
  <2>1. Holds(t, s, p - Len(t))
    BY <1>1 DEF DecodeWrites
  <2>2. PICK q \in Nat : q = p - Len(t)
    BY <1>3
  <2>3. PICK c \in Digit : c = s[p + 1]
    OBVIOUS
  <2>4. q + Len(t) + 1 = p + 1
    BY <1>3, <2>2
  <2>5. c = s[q + Len(t) + 1] /\ Holds(t, s, q) /\ t \in Seq(Digit)
    BY <1>3, <2>1, <2>2, <2>3, <2>4
  <2>6. Append(t, c) \in Seq(Digit) /\ Len(Append(t, c)) = Len(t) + 1 /\ Holds(Append(t, c), s, q)
    BY <2>5, TakenHolds
  <2>7. u = Append(t, c)
    BY <1>2, <2>3
  <2>8. (p + 1) - Len(u) = q
    BY <1>3, <2>2, <2>6, <2>7
  <2> QED  BY <2>6, <2>7, <2>8
<1>5. DecodeWrites(s, k, p + 1, u, o)
  <2>1. p + 1 \in Nat /\ p + 1 <= k /\ Len(u) <= 3 /\ Len(u) <= p + 1
    BY <1>3, <1>4
  <2>2. Begins(o, Decoded(s), Octet)
    BY <1>1 DEF DecodeWrites
  <2> QED  BY <1>4, <2>1, <2>2 DEF DecodeWrites
<1>6. DecodeGroups(k, p + 1, u, o)
  <2>1. (p + 1) - Len(u) = p - Len(t)
    BY <1>3, <1>4
  <2>2. PICK g \in Nat : p - Len(t) = 4 * g /\ Len(o) = 3 * g
    BY <1>1, <1>3 DEF DecodeGroups
  <2> QED  BY <2>1, <2>2 DEF DecodeGroups
<1> QED  BY <1>2, <1>5, <1>6 DEF DecodeGood

LEMMA ThreeOctets ==
  ASSUME NEW t, \A r \in 1..3 : Group(t)[r] \in Octet
  PROVE  Group(t) \in Seq(Octet) /\ Len(Group(t)) = 3
<1>1. PICK v : v = Group(t)
  OBVIOUS
<1>2. PICK x1, x2, x3 : v = << x1, x2, x3 >>
  BY <1>1 DEF Group, Octets
<1>3. x1 \in Octet /\ x2 \in Octet /\ x3 \in Octet
  BY <1>1, <1>2
<1> QED  BY <1>1, <1>2, <1>3

(* It is kept when the octets of a group are written.                      *)
LEMMA WriteOctets ==
  ASSUME NEW s, Len(s) \in Nat, NEW k \in Nat, Leading(s, k), NEW p, NEW t, NEW o, DecodeGood(s, k, p, t, o),
         p < k, s[p + 1] \in Digit, ~(Len(t) < 3)
  PROVE  /\ DecodeGood(s, k, p + 1, << >>, o \o Group(Append(t, s[p + 1])))
         /\ Len(o \o Group(Append(t, s[p + 1]))) = Len(o) + 3
         /\ Len(o) + 3 <= DecodedLength(k)
<1>1. DecodeWrites(s, k, p, t, o) /\ DecodeGroups(k, p, t, o)
  BY DEF DecodeGood
<1>2. PICK u : u = Append(t, s[p + 1])
  OBVIOUS
<1>3. p \in Nat /\ t \in Seq(Digit) /\ Len(t) <= p /\ Len(t) <= 3
  BY <1>1 DEF DecodeWrites
<1>4. p \in Nat /\ t \in Seq(Digit) /\ Len(t) = 3
  <2>1. Len(t) \in Nat
    BY <1>3
  <2>2. PICK m \in Nat : m = Len(t)
    BY <2>1
  <2>3. m <= 3 /\ ~(m < 3)
    BY <1>3, <2>2
  <2>4. m = 3
    BY <2>3
  <2> QED  BY <1>3, <2>2, <2>4
<1>5. u \in Seq(Digit) /\ Len(u) = 4 /\ Holds(u, s, (p + 1) - Len(u))
  <2>1. Holds(t, s, p - Len(t))
    BY <1>1 DEF DecodeWrites
  <2>2. PICK q \in Nat : q = p - Len(t)
    BY <1>3, <1>4
  <2>3. PICK c \in Digit : c = s[p + 1]
    OBVIOUS
  <2>4. q + Len(t) + 1 = p + 1
    BY <1>4, <2>2
  <2>5. c = s[q + Len(t) + 1] /\ Holds(t, s, q) /\ t \in Seq(Digit)
    BY <1>4, <2>1, <2>2, <2>3, <2>4
  <2>6. Append(t, c) \in Seq(Digit) /\ Len(Append(t, c)) = Len(t) + 1 /\ Holds(Append(t, c), s, q)
    BY <2>5, TakenHolds
  <2>7. u = Append(t, c)
    BY <1>2, <2>3
  <2>8. (p + 1) - Len(u) = q
    BY <1>4, <2>2, <2>6, <2>7
  <2> QED  BY <1>4, <2>6, <2>7, <2>8
<1>6. PICK g \in Nat : p - Len(t) = 4 * g /\ Len(o) = 3 * g
  BY <1>1, <1>4 DEF DecodeGroups
<1>7. p + 1 = 4 * g + 4 /\ 4 * g + 4 <= k
  BY <1>4, <1>6
<1>8. Len(o) + 3 <= DecodedLength(k) /\ \A r \in 1..3 : 3 * g + r <= DecodedLength(k)
  BY <1>6, <1>7 DEF DecodedLength
<1>9. (\A r \in 1..3 : Group(u)[r] \in Octet) /\ \A r \in 1..3 : Group(u)[r] = Decoded(s)[3 * g + r]
  <2>1. Holds(u, s, 4 * g)
    <3>1. (p + 1) - Len(u) = 4 * g
      BY <1>5, <1>7
    <3> QED  BY <1>5, <3>1
  <2>2. Len(u) <= 4 /\ 4 * g + Len(u) <= k /\ Len(u) = 4 /\ u \in Seq(Digit)
    BY <1>5, <1>7
  <2>3. /\ \A r \in 1..3 : Group(u)[r] \in Octet
        /\ \A r \in 1..3 : 3 * g + r <= DecodedLength(k) => Group(u)[r] = Decoded(s)[3 * g + r]
    BY <2>1, <2>2, GroupDecoded
  <2> QED  BY <1>8, <2>3
<1>10. PICK v : v = Group(u) /\ v \in Seq(Octet) /\ Len(v) = 3
  BY <1>9, ThreeOctets
<1>11. Begins(o, Decoded(s), Octet)
  BY <1>1 DEF DecodeWrites
<1>12. Begins(o \o v, Decoded(s), Octet) /\ Len(o \o v) = Len(o) + Len(v)
  <2>1. \A r \in 1..Len(v) : v[r] = Decoded(s)[Len(o) + r]
    BY <1>6, <1>9, <1>10
  <2>2. v \in Seq(Octet)
    BY <1>10
  <2> QED  BY <1>11, <2>1, <2>2, LongerBegins
<1>13. DecodeWrites(s, k, p + 1, << >>, o \o v)
  <2>1. p + 1 \in Nat /\ p + 1 <= k /\ << >> \in Seq(Digit) /\ Len(<< >>) = 0
    BY <1>4
  <2> QED  BY <1>12, <2>1, HoldsNothing DEF DecodeWrites
<1>14. DecodeGroups(k, p + 1, << >>, o \o v)
  <2>1. g + 1 \in Nat /\ (p + 1) - Len(<< >>) = 4 * (g + 1) /\ Len(o \o v) = 3 * (g + 1)
    BY <1>6, <1>7, <1>10, <1>12
  <2> QED  BY <2>1 DEF DecodeGroups
<1> QED  BY <1>2, <1>10, <1>12, <1>13, <1>14, <1>8 DEF DecodeGood

(* Those of the last, incomplete group make everything decoded.            *)
LEMMA WriteLast ==
  ASSUME NEW s, Len(s) \in Nat, NEW k \in Nat, Leading(s, k), NEW p, NEW t, NEW o, DecodeGood(s, k, p, t, o),
         p = k, t # << >>
  PROVE  /\ DecodeGood(s, k, p, << >>, o \o SubSeq(Group(t), 1, Len(t) - 1))
         /\ Len(o \o SubSeq(Group(t), 1, Len(t) - 1)) = Len(o) + (Len(t) - 1)
         /\ Len(o) + (Len(t) - 1) = DecodedLength(k)
<1>1. DecodeWrites(s, k, p, t, o) /\ DecodeGroups(k, p, t, o)
  BY DEF DecodeGood
<1>2. p \in Nat /\ t \in Seq(Digit) /\ Len(t) <= p /\ Len(t) <= 3
  BY <1>1 DEF DecodeWrites
<1>3. PICK m \in 1..3 : m = Len(t)
  <2>1. Len(t) \in Nat /\ Len(t) # 0
    BY <1>2
  <2>2. PICK m \in Nat : m = Len(t)
    BY <2>1
  <2>3. m <= 3 /\ m # 0
    BY <1>2, <2>1, <2>2
  <2> QED  BY <2>2, <2>3
<1>4. PICK g \in Nat : p - Len(t) = 4 * g /\ Len(o) = 3 * g
  BY <1>1 DEF DecodeGroups
<1>5. k = 4 * g + m
  BY <1>2, <1>3, <1>4
<1>6. DecodedLength(k) = 3 * g + (m - 1)
  <2>1. m = 1 \/ m = 2 \/ m = 3
    OBVIOUS
  <2>2. (6 * (4 * g + 1)) \div 8 = 3 * g /\ (6 * (4 * g + 2)) \div 8 = 3 * g + 1 /\ (6 * (4 * g + 3)) \div 8 = 3 * g + 2
    OBVIOUS
  <2> QED  BY <1>5, <2>1, <2>2 DEF DecodedLength
<1>7. (\A r \in 1..3 : Group(t)[r] \in Octet) /\ \A r \in 1..3 : r <= m - 1 => Group(t)[r] = Decoded(s)[3 * g + r]
  <2>1. Holds(t, s, 4 * g)
    BY <1>1, <1>4 DEF DecodeWrites
  <2>2. Len(t) <= 4 /\ 4 * g + Len(t) <= k /\ 4 * g + Len(t) = k /\ t \in Seq(Digit)
    BY <1>2, <1>3, <1>5
  <2>3. /\ \A r \in 1..3 : Group(t)[r] \in Octet
        /\ \A r \in 1..3 : 3 * g + r <= DecodedLength(k) => Group(t)[r] = Decoded(s)[3 * g + r]
    BY <2>1, <2>2, GroupDecoded, ZenonT(60)
  <2> QED  BY <1>6, <2>3
<1>8. Group(t) \in Seq(Octet) /\ Len(Group(t)) = 3
  BY <1>7, ThreeOctets
<1>9. PICK v : v = SubSeq(Group(t), 1, m - 1)
  OBVIOUS
<1>10. v \in Seq(Octet) /\ Len(v) = m - 1 /\ \A r \in 1..m - 1 : v[r] = Group(t)[r]
  <2>1. Group(t) \in [1..3 -> Octet]
    BY <1>8, SMTT(60)
  <2>2. PICK n \in Nat : n = m - 1 /\ n <= 3
    OBVIOUS
  <2>3. PICK f \in Seq(Octet) : f = Group(t) /\ Len(f) = 3
    BY <1>8
  <2>4. v = SubSeq(f, 1, n)
    BY <1>9, <2>2, <2>3
  <2>5. v \in Seq(Octet) /\ Len(v) = n /\ \A r \in 1..n : v[r] = f[r]
    BY <2>2, <2>3, <2>4
  <2> QED  BY <2>2, <2>3, <2>5
<1>11. Begins(o, Decoded(s), Octet)
  BY <1>1 DEF DecodeWrites
<1>12. Begins(o \o v, Decoded(s), Octet) /\ Len(o \o v) = Len(o) + Len(v)
  <2>1. \A r \in 1..Len(v) : v[r] = Decoded(s)[Len(o) + r]
    BY <1>4, <1>7, <1>10, SMTT(60)
  <2>2. v \in Seq(Octet)
    BY <1>10
  <2> QED  BY <1>11, <2>1, <2>2, LongerBegins
<1>13. DecodeWrites(s, k, p, << >>, o \o v)
  <2>1. p <= k /\ << >> \in Seq(Digit) /\ Len(<< >>) = 0
    BY <1>2
  <2> QED  BY <1>2, <1>12, <2>1, HoldsNothing DEF DecodeWrites
<1>14. Len(o \o v) = DecodedLength(k)
  BY <1>4, <1>6, <1>10, <1>12
<1>15. DecodeGroups(k, p, << >>, o \o v)
  BY <1>14 DEF DecodeGroups
<1>16. Len(o) + (Len(t) - 1) = DecodedLength(k)
  BY <1>3, <1>4, <1>6
<1>17. DecodeGood(s, k, p, << >>, o \o v)
  BY <1>13, <1>15 DEF DecodeGood
<1>18. v = SubSeq(Group(t), 1, Len(t) - 1)
  BY <1>3, <1>9
<1> QED  BY <1>14, <1>16, <1>17, <1>18

(* Without such a group everything is decoded at the end.                  *)
LEMMA DecodeEnds ==
  ASSUME NEW s, Len(s) \in Nat, NEW k \in Nat, Leading(s, k), NEW p, NEW t, NEW o, DecodeGood(s, k, p, t, o),
         p = k, t = << >>
  PROVE  o = Decoded(s)
<1>1. DecodeWrites(s, k, p, t, o) /\ DecodeGroups(k, p, t, o)
  BY DEF DecodeGood
<1>2. Decoded(s) \in Seq(Octet) /\ Len(Decoded(s)) = DecodedLength(k) /\ Begins(o, Decoded(s), Octet)
  BY <1>1, DecodedTyped DEF DecodeWrites
<1>3. Len(o) = DecodedLength(k)
  <2>1. CASE \E g \in Nat : p - Len(t) = 4 * g /\ Len(o) = 3 * g
    <3>1. PICK g \in Nat : p - Len(t) = 4 * g /\ Len(o) = 3 * g
      BY <2>1
    <3>2. k = 4 * g
      BY <3>1
    <3>3. (6 * (4 * g)) \div 8 = 3 * g
      OBVIOUS
    <3> QED  BY <3>1, <3>2, <3>3 DEF DecodedLength
  <2> QED  BY <1>1, <2>1 DEF DecodeGroups
<1> QED  BY <1>2, <1>3, WholeOf

-----------------------------------------------------------------------------
(* The inductive invariant of Base64, and one lemma for each action.       *)

(* A call that has returned a length; a call that has not begun.           *)
Ended == result \notin {Running, -1}
NoCall == pos = 0 /\ tmp = << >> /\ out = << >> /\ result = Running
(* An encoding is somewhere in its loop, or has failed for want of room,   *)
(* or is complete.                                                         *)
EncodeInv ==
  /\ src \in Seq(Octet) /\ message = src
  /\ result # -1 => EncodeGood(src, pos, tmp, out)
  /\ result = -1 => out_buff_len <= EncodedLength(Len(src))
  /\ Ended => pos = Len(src) /\ tmp = << >> /\ result = Len(out) /\ Len(out) < out_buff_len
Digits64 == Len(DigitsOf(src))
(* A decoding likewise.                                                    *)
DecodeInv ==
  /\ Len(src) \in Nat
  /\ message = Unknown \/ (message \in Seq(Octet) /\ src = Encoded(message))
  /\ result # -1 => DecodeGood(src, Digits64, pos, tmp, out)
  /\ result = -1 => out_buff_len <= DecodedLength(Digits64)
  /\ Ended => pos = Digits64 /\ tmp = << >> /\ result = Len(out) /\ Len(out) < out_buff_len
(* The inductive invariant of Base64.                                      *)
B64Inv ==
  /\ op \in {"none", "encode", "decode"} /\ out_buff_len \in Nat
  /\ op = "none" => NoCall
  /\ op = "encode" => EncodeInv
  /\ op = "decode" => DecodeInv

LEMMA LeadingDigits ==
  ASSUME NEW s, Len(s) \in Nat
  PROVE  Len(DigitsOf(s)) \in Nat /\ Leading(s, Len(DigitsOf(s)))
<1>1. PICK k \in 0..Len(s) : Leading(s, k)
  BY LeadingExists
<1>2. Len(DigitsOf(s)) = k /\ k \in Nat
  BY <1>1, DigitsOfIs
<1> QED  BY <1>1, <1>2

LEMMA RunningIs == Running # -1 /\ Running = -2 /\ ~(Running >= 0)
BY DEF Running

LEMMA B64InvInit == B64Init => B64Inv
BY DEF B64Init, B64Inv, NoCall

(* A call begins.                                                          *)
LEMMA EncodeCalled ==
  ASSUME B64Inv, NEW s \in Seq(Octet), NEW n \in Nat, Call("encode", s, n)
  PROVE  B64Inv'
<1>1. NoCall /\ op = "none"
  BY DEF B64Inv, Call
<1>2. /\ op' = "encode" /\ src' = s /\ out_buff_len' = n /\ message' = s
      /\ pos' = 0 /\ tmp' = << >> /\ out' = << >> /\ result' = Running
  BY <1>1 DEF Call, NoCall
<1>3. EncodeGood(src', pos', tmp', out')
  BY <1>2, EncodeStarts
<1>4. EncodeInv'
  BY <1>2, <1>3, RunningIs DEF EncodeInv, Ended
<1> QED  BY <1>2, <1>4 DEF B64Inv

LEMMA DecodeCalled ==
  ASSUME B64Inv, NEW s, Len(s) \in Nat, NEW n \in Nat, Call("decode", s, n)
  PROVE  B64Inv'
<1>1. NoCall /\ op = "none"
  BY DEF B64Inv, Call
<1>2. /\ op' = "decode" /\ src' = s /\ out_buff_len' = n /\ message' = Unknown
      /\ pos' = 0 /\ tmp' = << >> /\ out' = << >> /\ result' = Running
  BY <1>1 DEF Call, NoCall
<1>3. DecodeGood(src', Digits64', pos', tmp', out')
  <2>1. Digits64' \in Nat
    BY <1>2, LeadingDigits DEF Digits64
  <2> QED  BY <1>2, <2>1, DecodeStarts
<1>4. DecodeInv'
  BY <1>2, <1>3, RunningIs DEF DecodeInv, Ended
<1> QED  BY <1>2, <1>4 DEF B64Inv

(* The steps of an encoding and of a decoding keep the invariant.          *)
LEMMA EncodeKeeps ==
  ASSUME B64Inv, Encode
  PROVE  B64Inv'
<1>1. Encoding
  BY DEF Encode, EncodeByte, EncodeRest, EncodeEnd
<1>2. /\ op = "encode" /\ EncodeInv /\ result = Running /\ src \in Seq(Octet) /\ message = src
      /\ EncodeGood(src, pos, tmp, out) /\ out_buff_len \in Nat
  BY <1>1, RunningIs DEF Encoding, B64Inv, EncodeInv
<1>3. op' = op /\ src' = src /\ out_buff_len' = out_buff_len /\ message' = message
  BY DEF Encode, EncodeByte, EncodeRest, EncodeEnd, EndString, Fail
<1>4. Len(src) \in Nat /\ pos \in Nat /\ pos <= Len(src) /\ Len(out) \in Nat /\ EncodedLength(Len(src)) \in Nat
  <2>1. pos \in Nat /\ pos <= Len(src) /\ out \in Seq(Letter)
    BY <1>2 DEF EncodeGood, EncodeWrites, Begins
  <2>2. Len(out) \in Nat /\ Len(src) \in Nat
    BY <1>2, <2>1
  <2> QED  BY <2>1, <2>2, DigitCountIs
<1> SUFFICES EncodeInv'
  BY <1>2, <1>3 DEF B64Inv
<1>5. ASSUME result' = Running, EncodeGood(src, pos', tmp', out') PROVE EncodeInv'
  BY <1>2, <1>3, <1>5, RunningIs DEF EncodeInv, Ended
<1>6. ASSUME result' = -1, out_buff_len <= EncodedLength(Len(src)) PROVE EncodeInv'
  BY <1>2, <1>3, <1>6, RunningIs DEF EncodeInv, Ended
<1>7. CASE EncodeByte
  <2>1. CASE Len(tmp) < 2
    <3>1. pos' = pos + 1 /\ tmp' = Append(tmp, src[pos + 1]) /\ out' = out /\ result' = Running /\ pos < Len(src)
      BY <1>2, <1>7, <2>1 DEF EncodeByte, Taken
    <3> QED  BY <1>2, <1>5, <2>1, <3>1, TakeByte
  <2>2. CASE ~(Len(tmp) < 2)
    <3>1. pos < Len(src)
      BY <1>7 DEF EncodeByte
    <3>2. /\ EncodeGood(src, pos + 1, << >>, out \o Digits(Append(tmp, src[pos + 1])))
          /\ Len(out) + 4 <= EncodedLength(Len(src))
      BY <1>2, <2>2, <3>1, WriteGroup
    <3>3. CASE Room(4)
      <4>1. pos' = pos + 1 /\ tmp' = << >> /\ out' = out \o Digits(Append(tmp, src[pos + 1])) /\ result' = Running
        BY <1>2, <1>7, <2>2, <3>3 DEF EncodeByte, Taken
      <4> QED  BY <1>5, <3>2, <4>1
    <3>4. CASE ~Room(4)
      <4>1. result' = -1
        BY <1>7, <2>2, <3>4 DEF EncodeByte, Fail
      <4>2. out_buff_len < Len(out) + 4
        BY <1>4, <1>2, <3>4 DEF Room
      <4> QED  BY <1>4, <1>2, <1>6, <3>2, <4>1, <4>2
    <3> QED  BY <3>3, <3>4
  <2> QED  BY <2>1, <2>2
<1>8. CASE EncodeRest
  <2>1. pos = Len(src) /\ tmp # << >> /\ tmp' = << >> /\ pos' = pos
    BY <1>8 DEF EncodeRest
  <2>2. /\ EncodeGood(src, pos, << >>, out \o Rest(tmp))
        /\ Len(out) + 4 = EncodedLength(Len(src))
    BY <1>2, <2>1, WriteRest
  <2>3. CASE Room(4)
    <3>1. out' = out \o Rest(tmp) /\ result' = Running
      BY <1>8, <2>3 DEF EncodeRest
    <3> QED  BY <1>5, <2>1, <2>2, <3>1
  <2>4. CASE ~Room(4)
    <3>1. result' = -1
      BY <1>8, <2>4 DEF EncodeRest
    <3>2. out_buff_len < Len(out) + 4
      BY <1>4, <1>2, <2>4 DEF Room
    <3>3. out_buff_len <= EncodedLength(Len(src))
      BY <1>4, <1>2, <2>2, <3>2
    <3> QED  BY <1>6, <3>1, <3>3
  <2> QED  BY <2>3, <2>4
<1>9. CASE EncodeEnd
  <2>1. pos = Len(src) /\ tmp = << >> /\ pos' = pos /\ tmp' = tmp /\ out' = out
    BY <1>9 DEF EncodeEnd, EndString, Fail
  <2>2. out = Encoded(src) /\ Len(out) = EncodedLength(Len(src))
    BY <1>2, <2>1, EncodeEnds, EncodedTyped
  <2>3. CASE Room(1)
    <3>1. result' = Len(out)
      BY <1>9, <2>3 DEF EncodeEnd, EndString
    <3>2. Len(out) < out_buff_len /\ Len(out) # -1
      BY <1>4, <1>2, <2>3 DEF Room
    <3> QED  BY <1>2, <1>3, <2>1, <3>1, <3>2 DEF EncodeInv, Ended
  <2>4. CASE ~Room(1)
    <3>1. result' = -1
      BY <1>9, <2>4 DEF EncodeEnd, EndString, Fail
    <3>2. out_buff_len <= Len(out)
      BY <1>4, <1>2, <2>4 DEF Room
    <3> QED  BY <1>6, <2>2, <3>1, <3>2
  <2> QED  BY <2>3, <2>4
<1> QED  BY <1>7, <1>8, <1>9 DEF Encode

LEMMA DecodeKeeps ==
  ASSUME B64Inv, Decode
  PROVE  B64Inv'
<1>1. Decoding
  BY DEF Decode, DecodeDigit, DecodeRest, DecodeEnd
<1>2. /\ op = "decode" /\ DecodeInv /\ result = Running /\ Len(src) \in Nat
      /\ DecodeGood(src, Digits64, pos, tmp, out) /\ out_buff_len \in Nat
  BY <1>1, RunningIs DEF Decoding, B64Inv, DecodeInv
<1>3. op' = op /\ src' = src /\ out_buff_len' = out_buff_len /\ message' = message
  BY DEF Decode, DecodeDigit, DecodeRest, DecodeEnd, EndString, Fail
<1> DEFINE k == Digits64
<1>4. k \in Nat /\ Leading(src, k) /\ k' = k
  BY <1>2, <1>3, LeadingDigits DEF Digits64
<1>5. DecodeGood(src, k, pos, tmp, out) /\ (Digits64)' = k
  BY <1>2, <1>4
<1> HIDE DEF k
<1>6. pos \in Nat /\ pos <= k /\ Len(out) \in Nat /\ DecodedLength(k) \in Nat
  <2>1. pos \in Nat /\ pos <= k /\ out \in Seq(Octet)
    BY <1>5 DEF DecodeGood, DecodeWrites, Begins
  <2>2. Len(out) \in Nat
    BY <2>1
  <2>3. DecodedLength(k) \in Nat
    BY <1>4 DEF DecodedLength
  <2> QED  BY <2>1, <2>2, <2>3
<1>7. MoreDigits <=> pos < k
  BY <1>6, <1>2, <1>4, MoreIs DEF MoreDigits
<1> SUFFICES DecodeInv'
  BY <1>2, <1>3 DEF B64Inv
<1>8. ASSUME result' = Running, DecodeGood(src, k, pos', tmp', out') PROVE DecodeInv'
  BY <1>2, <1>3, <1>8, <1>5, RunningIs DEF DecodeInv, Ended
<1>9. ASSUME result' = -1, out_buff_len <= DecodedLength(k) PROVE DecodeInv'
  BY <1>2, <1>3, <1>9, <1>5, RunningIs DEF DecodeInv, Ended
<1>10. CASE DecodeDigit
  <2>1. pos < k /\ src[pos + 1] \in Digit
    BY <1>10, <1>7 DEF DecodeDigit, MoreDigits
  <2>2. CASE Len(tmp) < 3
    <3>1. pos' = pos + 1 /\ tmp' = Append(tmp, src[pos + 1]) /\ out' = out /\ result' = Running
      BY <1>2, <1>10, <2>2 DEF DecodeDigit, Taken
    <3>2. DecodeGood(src, k, pos + 1, Append(tmp, src[pos + 1]), out)
      BY <1>5, <1>4, <2>1, <2>2, TakeDigit
    <3> QED  BY <1>8, <3>1, <3>2
  <2>3. CASE ~(Len(tmp) < 3)
    <3>1. /\ DecodeGood(src, k, pos + 1, << >>, out \o Group(Append(tmp, src[pos + 1])))
          /\ Len(out) + 3 <= DecodedLength(k)
      BY <1>2, <1>5, <1>4, <2>1, <2>3, WriteOctets
    <3>2. CASE Room(3)
      <4>1. pos' = pos + 1 /\ tmp' = << >> /\ out' = out \o Group(Append(tmp, src[pos + 1])) /\ result' = Running
        BY <1>2, <1>10, <2>3, <3>2 DEF DecodeDigit, Taken
      <4> QED  BY <1>8, <3>1, <4>1
    <3>3. CASE ~Room(3)
      <4>1. result' = -1
        BY <1>10, <2>3, <3>3 DEF DecodeDigit, Fail
      <4>2. out_buff_len < Len(out) + 3
        BY <1>6, <1>2, <3>3 DEF Room
      <4>3. out_buff_len <= DecodedLength(k)
        BY <1>6, <1>2, <3>1, <4>2
      <4> QED  BY <1>9, <4>1, <4>3
    <3> QED  BY <3>2, <3>3
  <2> QED  BY <2>2, <2>3
<1>11. CASE DecodeRest
  <2>1. pos = k /\ tmp # << >>
    BY <1>6, <1>11, <1>4, <1>7 DEF DecodeRest
  <2>2. /\ DecodeGood(src, k, pos, << >>, out \o SubSeq(Group(tmp), 1, Len(tmp) - 1))
        /\ Len(out) + (Len(tmp) - 1) = DecodedLength(k)
    BY <1>2, <1>5, <1>4, <2>1, WriteLast
  <2>3. CASE Room(Len(tmp) - 1)
    <3>1. out' = out \o SubSeq(Group(tmp), 1, Len(tmp) - 1) /\ result' = Running /\ pos' = pos /\ tmp' = << >>
      BY <1>2, <1>11, <2>3 DEF DecodeRest
    <3> QED  BY <1>8, <2>2, <3>1
  <2>4. CASE ~Room(Len(tmp) - 1)
    <3>1. result' = -1
      BY <1>11, <2>4 DEF DecodeRest, Fail
    <3>2. ~(out_buff_len >= DecodedLength(k))
      BY <2>2, <2>4 DEF Room
    <3>3. out_buff_len <= DecodedLength(k)
      BY <1>6, <1>2, <3>2
    <3> QED  BY <1>9, <3>1, <3>3
  <2> QED  BY <2>3, <2>4
<1>12. CASE DecodeEnd
  <2>1. pos = k /\ tmp = << >> /\ pos' = pos /\ tmp' = tmp /\ out' = out
    BY <1>6, <1>12, <1>4, <1>7 DEF DecodeEnd, EndString, Fail
  <2>2. out = Decoded(src) /\ Len(out) = DecodedLength(k)
    BY <1>2, <1>5, <1>4, <2>1, DecodeEnds, DecodedTyped
  <2>3. CASE Room(1)
    <3>1. result' = Len(out)
      BY <1>12, <2>3 DEF DecodeEnd, EndString
    <3>2. Len(out) < out_buff_len /\ Len(out) # -1
      BY <1>6, <1>2, <2>3 DEF Room
    <3> QED  BY <1>2, <1>3, <1>5, <2>1, <3>1, <3>2 DEF DecodeInv, Ended
  <2>4. CASE ~Room(1)
    <3>1. result' = -1
      BY <1>12, <2>4 DEF DecodeEnd, EndString, Fail
    <3>2. out_buff_len <= Len(out)
      BY <1>6, <1>2, <2>4 DEF Room
    <3> QED  BY <1>9, <2>2, <3>1, <3>2
  <2> QED  BY <2>3, <2>4
<1> QED  BY <1>10, <1>11, <1>12 DEF Decode

(* A text that encoding has made is decoded to its message.                *)
LEMMA DecodesResult ==
  ASSUME B64Inv, NEW n \in Nat, DecodeResult(n)
  PROVE  B64Inv'
<1>1. EncodeInv /\ Ended
  <2>1. result # Running /\ result # -1
    BY RunningIs DEF DecodeResult
  <2> QED  BY <2>1 DEF B64Inv, DecodeResult, Ended
<1>2. /\ src \in Seq(Octet) /\ message = src /\ out = Encoded(src) /\ tmp = << >>
  <2>1. result # -1 /\ src \in Seq(Octet) /\ message = src /\ pos = Len(src) /\ tmp = << >>
    BY <1>1 DEF EncodeInv, Ended
  <2>2. EncodeGood(src, pos, tmp, out)
    BY <1>1, <2>1 DEF EncodeInv
  <2> QED  BY <2>1, <2>2, EncodeEnds
<1>3. /\ op' = "decode" /\ src' = Encoded(message) /\ out_buff_len' = n /\ message' = message
      /\ pos' = 0 /\ tmp' = << >> /\ out' = << >> /\ result' = Running
  BY <1>2 DEF DecodeResult
<1>4. Len(src') \in Nat /\ message' \in Seq(Octet) /\ src' = Encoded(message')
  BY <1>2, <1>3, EncodedTyped
<1>5. DecodeGood(src', Digits64', pos', tmp', out')
  <2>1. Digits64' \in Nat
    BY <1>4, LeadingDigits DEF Digits64
  <2> QED  BY <1>3, <2>1, DecodeStarts
<1>6. DecodeInv'
  BY <1>3, <1>4, <1>5, RunningIs DEF DecodeInv, Ended
<1> QED  BY <1>3, <1>6 DEF B64Inv

LEMMA Forgets == ASSUME B64Inv, Forget PROVE B64Inv'
BY DEF Forget, B64Inv, NoCall

LEMMA B64Unchanged ==
  ASSUME B64Inv, UNCHANGED b64vars
  PROVE  B64Inv'
BY DEF b64vars, B64Inv, NoCall, EncodeInv, DecodeInv, Ended, Digits64

LEMMA SourceIn == ASSUME NEW T, NEW U, T \subseteq U, NEW n \in Nat, NEW s \in SeqUpTo(T, n)
                  PROVE  Len(s) \in Nat /\ s \in Seq(U)
<1>1. PICK k \in 0..n : s \in [1..k -> T]
  BY DEF SeqUpTo
<1>2. k \in Nat
  OBVIOUS
<1>3. s \in [1..k -> U]
  BY <1>1
<1> QED  BY <1>2, <1>3, FunctionIsSeq

(* Every step of Base64 keeps it.                                          *)
LEMMA B64Keeps ==
  ASSUME B64Inv, B64Next
  PROVE  B64Inv'
<1>1. CASE NewCall
  <2>1. PICK n \in 0..MaxBuff : \/ \E s \in SeqUpTo(Byte, MaxByte) : Call("encode", s, n)
                                \/ \E s \in SeqUpTo(Char, MaxChar) : Call("decode", s, n)
    BY <1>1 DEF NewCall
  <2>2. n \in Nat
    BY BoundAssumption
  <2>3. ASSUME NEW s \in SeqUpTo(Byte, MaxByte), Call("encode", s, n) PROVE B64Inv'
    <3>1. Byte \subseteq Octet
      BY SourceAssumption DEF Octet
    <3>2. s \in Seq(Octet)
      BY <3>1, BoundAssumption, SourceIn
    <3> QED  BY <2>2, <2>3, <3>2, EncodeCalled
  <2>4. ASSUME NEW s \in SeqUpTo(Char, MaxChar), Call("decode", s, n) PROVE B64Inv'
    <3>1. Len(s) \in Nat
      BY BoundAssumption, SourceIn
    <3> QED  BY <2>2, <2>4, <3>1, DecodeCalled
  <2> QED  BY <2>1, <2>3, <2>4
<1>2. ASSUME NEW n \in 0..MaxBuff, DecodeResult(n) PROVE B64Inv'
  <2>1. n \in Nat
    BY BoundAssumption
  <2> QED  BY <1>2, <2>1, DecodesResult
<1> QED  BY <1>1, <1>2, EncodeKeeps, DecodeKeeps DEF B64Next

(* And the properties of Base64 follow.                                    *)
LEMMA B64InvMeans == B64Inv => EncodesAsDefined /\ DecodesAsDefined /\ RoundTrip
<1> SUFFICES ASSUME B64Inv PROVE EncodesAsDefined /\ DecodesAsDefined /\ RoundTrip
  OBVIOUS
<1>1. ASSUME op = "encode", result # Running
      PROVE  IF Len(Encoded(src)) < out_buff_len THEN out = Encoded(src) /\ result = Len(Encoded(src)) ELSE result = -1
  <2>1. EncodeInv /\ src \in Seq(Octet) /\ out_buff_len \in Nat
    BY <1>1 DEF B64Inv, EncodeInv
  <2>2. Len(Encoded(src)) = EncodedLength(Len(src)) /\ EncodedLength(Len(src)) \in Nat
    BY <2>1, EncodedTyped
  <2>3. CASE result = -1
    <3>1. out_buff_len <= EncodedLength(Len(src))
      BY <2>1, <2>3 DEF EncodeInv
    <3>2. ~(EncodedLength(Len(src)) < out_buff_len)
      BY <2>1, <2>2, <3>1
    <3> QED  BY <2>2, <2>3, <3>2
  <2>4. CASE result # -1
    <3>1. Ended
      BY <1>1, <2>4 DEF Ended
    <3>2. EncodeGood(src, pos, tmp, out) /\ pos = Len(src) /\ tmp = << >> /\ result = Len(out) /\ Len(out) < out_buff_len
      BY <2>1, <2>4, <3>1 DEF EncodeInv
    <3>3. out = Encoded(src)
      BY <2>1, <3>2, EncodeEnds
    <3> QED  BY <3>2, <3>3
  <2> QED  BY <2>3, <2>4
<1>2. ASSUME op = "decode", result # Running, result # -1
      PROVE  out = Decoded(src) /\ result = Len(out) /\ Len(out) < out_buff_len
  <2>1. DecodeInv /\ Len(src) \in Nat
    BY <1>2 DEF B64Inv, DecodeInv
  <2>2. Ended
    BY <1>2 DEF Ended
  <2>3. DecodeGood(src, Digits64, pos, tmp, out) /\ pos = Digits64 /\ tmp = << >>
        /\ result = Len(out) /\ Len(out) < out_buff_len
    BY <1>2, <2>1, <2>2 DEF DecodeInv
  <2>4. Digits64 \in Nat /\ Leading(src, Digits64)
    BY <2>1, LeadingDigits DEF Digits64
  <2>5. out = Decoded(src)
    BY <2>1, <2>3, <2>4, DecodeEnds
  <2> QED  BY <2>3, <2>5
<1>3. ASSUME op = "decode", result # Running
      PROVE  IF Len(Decoded(src)) < out_buff_len THEN out = Decoded(src) /\ result = Len(Decoded(src)) ELSE result = -1
  <2>1. CASE result = -1
    <3>1. DecodeInv /\ Len(src) \in Nat /\ out_buff_len \in Nat
      BY <1>3 DEF B64Inv, DecodeInv
    <3>2. Digits64 \in Nat /\ Leading(src, Digits64)
      BY <3>1, LeadingDigits DEF Digits64
    <3>3. Len(Decoded(src)) = DecodedLength(Digits64) /\ DecodedLength(Digits64) \in Nat
      BY <3>1, <3>2, DecodedTyped
    <3>4. out_buff_len <= DecodedLength(Digits64)
      BY <2>1, <3>1 DEF DecodeInv
    <3>5. ~(DecodedLength(Digits64) < out_buff_len)
      BY <3>1, <3>3, <3>4
    <3> QED  BY <2>1, <3>3, <3>5
  <2>2. CASE result # -1
    BY <1>2, <1>3, <2>2
  <2> QED  BY <2>1, <2>2
<1>4. ASSUME op = "decode", message # Unknown, result >= 0
      PROVE  out = message
  <2>1. result # Running /\ result # -1
    BY <1>4, RunningIs
  <2>2. out = Decoded(src)
    BY <1>2, <1>4, <2>1
  <2>3. message \in Seq(Octet) /\ src = Encoded(message)
    BY <1>4 DEF B64Inv, DecodeInv
  <2> QED  BY <2>2, <2>3, DecodedOfEncoded
<1> QED  BY <1>1, <1>3, <1>4 DEF EncodesAsDefined, DecodesAsDefined, RoundTrip

-----------------------------------------------------------------------------
(* The composition with Aes.                                               *)

(* What is encoded after an encryption is the cipher.                      *)
CodecInv == op # "none" /\ calls > 0 => message # Unknown /\ message \in Seq(Octet) /\ Len(message) <= Limit
(* The inductive invariant of the composition.                             *)
IInv == B64Inv /\ AesInv /\ CodecInv

(* The calls of Aes, as Codec makes them.                                  *)
LEMMA EncryptCallKeeps ==
  ASSUME AesInv, CallEncrypt
  PROVE  AesInv'
<1>1. PICK m \in Messages, key \in Keys \cup {NULL}, iv \in {"iv", NULL} :
        \/ mds_api_AES_CBC_encrypt_buffer(m, key, iv)
        \/ mds_api_AES_CBC_encrypt_buffer2(m, key, iv)
        \/ mds_api_AES_CBC_encrypt_buffer2_malloc(m, key, iv)
        \/ key # NULL /\ mds_api_AES_ECB_encrypt(m, key)
  BY DEF CallEncrypt
<1>2. m \in Seq(Octet)
  BY MessageAssumption DEF Octet
<1>3. PICK l \in Nat : l = Len(m)
  BY <1>2
<1>4. /\ l <= Limit
      /\ 16 * ((l + 15) \div 16) \in Nat /\ 16 * ((l + 15) \div 16) <= Limit
  BY <1>3, RoomAssumption, BlocksFacts DEF Limit
<1>5. /\ Encrypt(TRUE, FALSE) \in CallSet /\ Encrypt(TRUE, FALSE).fn = "encrypt" /\ ~Encrypt(TRUE, FALSE).pad
      /\ Encrypt(TRUE, TRUE) \in CallSet /\ Encrypt(TRUE, TRUE).fn = "encrypt"
      /\ Encrypt(FALSE, FALSE) \in CallSet /\ Encrypt(FALSE, FALSE).fn = "encrypt" /\ ~Encrypt(FALSE, FALSE).pad
  BY CallsAre
<1>6. CASE mds_api_AES_CBC_encrypt_buffer(m, key, iv)
  <2>1. BeginEncrypt(Encrypt(TRUE, FALSE), m, l, key, iv)
    BY <1>3, <1>6 DEF mds_api_AES_CBC_encrypt_buffer
  <2> QED  BY <1>3, <1>4, <1>5, <2>1, BeginEncryptKeeps
<1>7. ASSUME mds_api_AES_CBC_encrypt_buffer2_malloc(m, key, iv) PROVE AesInv'
  <2>1. PICK n \in Nat : n = 16 * ((Len(m) + 15) \div 16) /\ n <= Limit
    BY <1>3, <1>4
  <2>2. mds_api_AES_input_buff_get_size(Len(m)) = n
    BY <1>3, <2>1 DEF mds_api_AES_input_buff_get_size, BLOCKLEN
  <2>3. BeginEncrypt(Encrypt(TRUE, TRUE), m, n, key, iv)
    BY <1>7, <2>2 DEF mds_api_AES_CBC_encrypt_buffer2_malloc
  <2> QED  BY <1>5, <2>1, <2>3, BeginEncryptKeeps
<1>8. CASE mds_api_AES_CBC_encrypt_buffer2(m, key, iv)
  <2>1. CASE Len(m) <= Support - BLOCKLEN
    BY <1>7, <1>8, <2>1 DEF mds_api_AES_CBC_encrypt_buffer2
  <2>2. CASE ~(Len(m) <= Support - BLOCKLEN)
    <3>1. /\ at = "idle" /\ ret' = -1 /\ at' = "done" /\ calls' = calls + 1
          /\ call' = Encrypt(TRUE, TRUE)
          /\ UNCHANGED <<static, mem, length, i, work, ghosts>>
      BY <1>8, <2>2 DEF mds_api_AES_CBC_encrypt_buffer2
    <3> QED  BY <3>1, TooLongKeeps
  <2> QED  BY <2>1, <2>2
<1>9. CASE mds_api_AES_ECB_encrypt(m, key)
  <2>1. 16 \in Nat /\ 16 <= Limit /\ NULL \in {"iv", NULL}
    BY <1>3, <1>4, <1>9 DEF mds_api_AES_ECB_encrypt, BLOCKLEN
  <2>2. BeginEncrypt(Encrypt(FALSE, FALSE), m, 16, key, NULL)
    BY <1>9 DEF mds_api_AES_ECB_encrypt, BLOCKLEN
  <2> QED  BY <1>5, <2>1, <2>2, BeginEncryptKeeps
<1> QED  BY <1>1, <1>6, <1>7, <1>8, <1>9

LEMMA DecryptCallKeeps ==
  ASSUME AesInv, NEW text \in Seq(Octet), Len(text) <= Limit,
         NEW key \in Keys \cup {NULL}, NEW iv \in {"iv", NULL},
         \/ mds_api_AES_CBC_decrypt_buffer(text, key, iv)
         \/ mds_api_AES_CBC_decrypt_buffer2(text, key, iv)
         \/ mds_api_AES_ECB_decrypt(text, key)
  PROVE  AesInv'
<1>1. /\ Decrypt(TRUE, FALSE) \in CallSet /\ Decrypt(TRUE, FALSE).fn = "decrypt"
      /\ Decrypt(TRUE, TRUE) \in CallSet /\ Decrypt(TRUE, TRUE).fn = "decrypt"
      /\ Decrypt(FALSE, FALSE) \in CallSet /\ Decrypt(FALSE, FALSE).fn = "decrypt"
  BY CallsAre
<1>2. PICK n : n = Len(text)
  OBVIOUS
<1>3. CASE mds_api_AES_CBC_decrypt_buffer(text, key, iv)
  <2>1. BeginDecrypt(Decrypt(TRUE, FALSE), text, n, key, iv)
    BY <1>2, <1>3 DEF mds_api_AES_CBC_decrypt_buffer
  <2> QED  BY <1>1, <1>2, <2>1, BeginDecryptKeeps
<1>4. CASE mds_api_AES_CBC_decrypt_buffer2(text, key, iv)
  <2>1. BeginDecrypt(Decrypt(TRUE, TRUE), text, n, key, iv)
    BY <1>2, <1>4 DEF mds_api_AES_CBC_decrypt_buffer2
  <2> QED  BY <1>1, <1>2, <2>1, BeginDecryptKeeps
<1>5. CASE mds_api_AES_ECB_decrypt(text, key)
  <2>1. BeginDecrypt(Decrypt(FALSE, FALSE), text, n, key, NULL) /\ NULL \in {"iv", NULL}
    BY <1>2, <1>5 DEF mds_api_AES_ECB_decrypt
  <2> QED  BY <1>1, <1>2, <2>1, BeginDecryptKeeps
<1> QED  BY <1>3, <1>4, <1>5

LEMMA WorkKeeps == AesInv /\ Work => AesInv'
BY StartBlockKeeps, RoundKeeps, EncryptLastKeeps, DecryptLastKeeps, EndKeeps, ReturnKeeps DEF Work

(* The cipher as a text.                                                   *)
LEMMA CipherText ==
  ASSUME AesInv, NEW n \in Nat, n <= Limit
  PROVE  Text(mem["cipher"], n) \in Seq(Octet) /\ Len(Text(mem["cipher"], n)) = n
<1>1. PICK buf \in BufferSet : buf = mem["cipher"]
  BY DEF AesInv, AesTypeOK, MemTyped, Buffers
<1>2. n <= 16 * MaxBlocks
  BY BlocksFacts DEF Limit
<1> QED  BY <1>1, <1>2, TextFacts

(* A step of Aes alone leaves Base64 as it is.                             *)
LEMMA JustAesKeeps ==
  ASSUME IInv, JustAes
  PROVE  IInv'
<1>1. op = "none" /\ UNCHANGED b64vars /\ op' = op
  BY DEF JustAes, b64vars
<1>2. B64Inv' /\ CodecInv'
  BY <1>1, B64Unchanged DEF IInv, CodecInv
<1>3. ASSUME NEW t \in AES_TYPE, mds_api_AES_init(t) PROVE AesInv'
  BY <1>3, AesInitKeeps DEF IInv
<1>4. ASSUME NEW n, n \in {made.len, made.len - 4}, made # NULL, n > 0, CallDecrypt(Text(mem["cipher"], n))
      PROVE AesInv'
  <2>1. made.len \in Nat /\ made.len <= Limit
    BY <1>4 DEF IInv, AesInv, MadeOK, MadeTyped
  <2>2. n \in Nat /\ n <= Limit
    BY <1>4, <2>1, BlocksFacts DEF Limit
  <2>3. PICK text : text = Text(mem["cipher"], n)
    OBVIOUS
  <2>4. text \in Seq(Octet) /\ Len(text) <= Limit
    BY <2>2, <2>3, CipherText DEF IInv
  <2>5. PICK key \in Keys \cup {NULL}, iv \in {"iv", NULL} :
          \/ mds_api_AES_CBC_decrypt_buffer(text, key, iv)
          \/ mds_api_AES_CBC_decrypt_buffer2(text, key, iv)
          \/ mds_api_AES_ECB_decrypt(text, key)
    BY <1>4, <2>3 DEF CallDecrypt
  <2> QED  BY <2>4, <2>5, DecryptCallKeeps DEF IInv
<1>5. AesInv'
  BY <1>3, <1>4, EncryptCallKeeps, WorkKeeps DEF IInv, JustAes
<1> QED  BY <1>2, <1>5 DEF IInv

(* The cipher goes into the encoder.                                       *)
LEMMA EncodeCipherKeeps ==
  ASSUME IInv, EncodeCipher
  PROVE  IInv'
<1>1. at = "done" /\ Encrypting /\ ret > 0 /\ Call("encode", Text(mem["cipher"], ret), ArraySize) /\ Return
  BY DEF EncodeCipher
<1>2. ret = length /\ length \in Nat /\ length <= Limit
  BY <1>1 DEF IInv, AesInv, DoneInv, AesTypeOK, CallTyped
<1>3. PICK s \in Seq(Octet) : s = Text(mem["cipher"], ret) /\ Len(s) = ret
  BY <1>2, CipherText DEF IInv
<1>4. PICK n \in Nat : n = ArraySize
  BY DEF ArraySize
<1>5. Call("encode", s, n)
  BY <1>1, <1>3, <1>4
<1>6. B64Inv'
  BY <1>5, EncodeCalled DEF IInv
<1>7. AesInv'
  BY <1>1, ReturnKeeps DEF IInv
<1>8. message' = s
  BY <1>5 DEF Call
<1>9. s # Unknown
  <2>1. Unknown[1] = -1 /\ Len(Unknown) = 1
    BY DEF Unknown
  <2>2. s = Unknown => s[1] \in Octet
    BY <2>1
  <2>3. -1 \notin Octet
    BY DEF Octet
  <2> QED  BY <2>1, <2>2, <2>3
<1>10. CodecInv'
  BY <1>2, <1>3, <1>8, <1>9 DEF CodecInv
<1> QED  BY <1>6, <1>7, <1>10 DEF IInv

(* Its text goes to the decoder.                                           *)
LEMMA TransportKeeps ==
  ASSUME IInv, Transport
  PROVE  IInv'
<1>1. calls > 0 /\ (Encode \/ Decode \/ DecodeResult(ArraySize)) /\ UNCHANGED aesvars /\ UNCHANGED calls
  BY DEF Transport, aesvars
<1>2. AesInv'
  BY <1>1, AesUnchanged DEF IInv
<1>3. B64Inv'
  <2>1. PICK n \in Nat : n = ArraySize
    BY DEF ArraySize
  <2> QED  BY <1>1, <2>1, EncodeKeeps, DecodeKeeps, DecodesResult DEF IInv
<1>4. op # "none" /\ message' = message
  <2>1. CASE Encode
    BY <2>1 DEF Encode, EncodeByte, EncodeRest, EncodeEnd, Encoding, EndString, Fail
  <2>2. CASE Decode
    BY <2>2 DEF Decode, DecodeDigit, DecodeRest, DecodeEnd, Decoding, EndString, Fail
  <2>3. CASE DecodeResult(ArraySize)
    BY <2>3 DEF DecodeResult
  <2> QED  BY <1>1, <2>1, <2>2, <2>3
<1>5. CodecInv'
  BY <1>1, <1>4 DEF IInv, CodecInv
<1> QED  BY <1>2, <1>3, <1>5 DEF IInv

(* The decoded bytes go into a decryption.                                 *)
LEMMA DecryptTextKeeps ==
  ASSUME IInv, DecryptText
  PROVE  IInv'
<1>1. calls > 0 /\ op = "decode" /\ result >= 0 /\ Forget
  BY DEF DecryptText
<1>2. message # Unknown /\ message \in Seq(Octet) /\ Len(message) <= Limit
  BY <1>1 DEF IInv, CodecInv
<1>3. out = message /\ result = Len(out)
  <2>1. RoundTrip /\ DecodesAsDefined
    BY B64InvMeans DEF IInv
  <2>2. result # -1 /\ result # Running
    BY <1>1, RunningIs
  <2>3. out = message
    BY <1>1, <1>2, <2>1 DEF RoundTrip
  <2>4. result = Len(out)
    BY <1>1, <2>1, <2>2 DEF DecodesAsDefined
  <2> QED  BY <2>3, <2>4
<1>4. SubSeq(out, 1, result) = message
  BY <1>2, <1>3
<1>5. PICK key \in Keys \cup {NULL}, iv \in {"iv", NULL} : mds_api_AES_CBC_decrypt_buffer2(message, key, iv)
  BY <1>4 DEF DecryptText
<1>6. AesInv'
  BY <1>2, <1>5, DecryptCallKeeps DEF IInv
<1>7. B64Inv'
  BY <1>1, Forgets DEF IInv
<1>8. CodecInv'
  BY <1>1 DEF CodecInv, Forget
<1> QED  BY <1>6, <1>7, <1>8 DEF IInv

(* A step of Base64 alone leaves Aes as it is.                             *)
LEMMA JustBase64Keeps ==
  ASSUME IInv, JustBase64
  PROVE  IInv'
<1>1. calls = 0 /\ B64Next /\ UNCHANGED aesvars /\ calls' = calls
  BY DEF JustBase64, aesvars
<1> QED  BY <1>1, B64Keeps, AesUnchanged DEF IInv, CodecInv

(* Every step of the program keeps IInv: the calls of the AES functions    *)
(* and of b64_encode and b64_decode, on their own and one on the result of *)
(* the other.                                                              *)
THEOREM InvariantHolds == Spec => []IInv
<1>1. Init => IInv
  BY B64InvInit, AesInvInit DEF Init, IInv, CodecInv, B64Init
<1>2. IInv /\ [Next]_vars => IInv'
  <2> SUFFICES ASSUME IInv, [Next]_vars PROVE IInv'
    OBVIOUS
  <2>1. CASE UNCHANGED vars
    BY <2>1, B64Unchanged, AesUnchanged DEF IInv, CodecInv, vars, aesvars, b64vars
  <2> QED  BY <2>1, JustBase64Keeps, JustAesKeeps, EncodeCipherKeeps, TransportKeeps, DecryptTextKeeps DEF Next
<1> QED  BY <1>1, <1>2, PTL DEF Spec

LEMMA IInvMeans ==
  IInv => /\ EncodesAsDefined /\ DecodesAsDefined /\ RoundTrip
          /\ EncryptsAsDefined /\ DecryptsBack /\ MessageComesBack
<1> SUFFICES ASSUME IInv PROVE EncryptsAsDefined /\ DecryptsBack /\ MessageComesBack
  BY B64InvMeans DEF IInv
<1>1. EncryptsAsDefined
  BY DEF IInv, AesInv, EncInv, EncActive, Active, Encrypting, EncRound, EncBlock, EncryptsAsDefined
<1>2. DecryptsBack
  <2> SUFFICES ASSUME Decrypting, whole, at \in {"block", "round"}, NEW b \in 1..i, b <= length \div BLOCKLEN
               PROVE  mem["back"][b] = Filled(made.msg, init_data)[b]
    BY DEF DecryptsBack
  <2>1. DecBack /\ CallTyped /\ Active
    BY DEF IInv, AesInv, DecInv, AesTypeOK, Active
  <2>2. i \in Nat /\ length \in Nat /\ i + 1 \in 1..MaxBlocks
    BY <2>1, LimitFacts
  <2>3. b \in 1..MaxBlocks /\ b <= i /\ 16 * b <= length
    BY <2>2, BlocksFacts DEF BLOCKLEN
  <2> QED  BY <2>1, <2>3 DEF DecBack
<1> QED  BY <1>1, <1>2 DEF IInv, AesInv

(* b64_encode returns the text that base64 defines, or -1 when the buffer  *)
(* has no room for it and its null character.                              *)
THEOREM EncodingIsAsDefined == Spec => []EncodesAsDefined
BY InvariantHolds, IInvMeans, PTL

(* b64_decode returns the bytes that its digits stand for, or -1 when the  *)
(* buffer has no room.                                                     *)
THEOREM DecodingIsAsDefined == Spec => []DecodesAsDefined
BY InvariantHolds, IInvMeans, PTL

(* b64_decode gives back what b64_encode was given.                        *)
THEOREM TextGoesRoundTrip == Spec => []RoundTrip
BY InvariantHolds, IInvMeans, PTL

(* What the encrypting functions write is the cipher that the standard     *)
(* defines, block by block, in ECB and CBC, for the key the round keys     *)
(* were made with and the block the chain began with, unless the buffer    *)
(* with that block was given again.                                        *)
THEOREM EncryptionIsAsDefined == Spec => []EncryptsAsDefined
BY InvariantHolds, IInvMeans, PTL

(* A decryption with the key and vector of the encryption gives back the   *)
(* bytes of the message and its fill.                                      *)
THEOREM DecryptionGivesBack == Spec => []DecryptsBack
BY InvariantHolds, IInvMeans, PTL

(* The functions with padding return the message itself: its length and    *)
(* its bytes, when it does not end in the byte of the fill.                *)
THEOREM MessageIsBack == Spec => []MessageComesBack
BY InvariantHolds, IInvMeans, PTL
=============================================================================
