-------------------------------- MODULE Fips197 --------------------------------
(***************************************************************************)
(* AES as its standard defines it: bytes as polynomials over GF(2), the    *)
(* S-box as an inverse and an affine map, the mixing of columns as a       *)
(* product with a fixed polynomial.  The reference for module Aes.         *)
(***************************************************************************)
EXTENDS Integers, Sequences

Nibble == 0..15
XorBit(a, b, k) == ((a \div 2^k + b \div 2^k) % 2) * 2^k
XorNibble == [a \in Nibble |-> [b \in Nibble |->
                XorBit(a, b, 0) + XorBit(a, b, 1) + XorBit(a, b, 2) + XorBit(a, b, 3)]]

(* The exclusive or of two bytes, of two words of four, of two blocks.     *)
Xor(a, b) == 16 * XorNibble[a \div 16][b \div 16] + XorNibble[a % 16][b % 16]
XorWord(a, b) == << Xor(a[1], b[1]), Xor(a[2], b[2]), Xor(a[3], b[3]), Xor(a[4], b[4]) >>
XorBlock(s, t) == << XorWord(s[1], t[1]), XorWord(s[2], t[2]), XorWord(s[3], t[3]), XorWord(s[4], t[4]) >>

(* Products modulo x^8 + x^4 + x^3 + x + 1: the bits of b from the highest *)
(* on, each of them a doubling and, when it is set, an addition of a.      *)
Doubled(a) == IF a < 128 THEN 2 * a ELSE Xor(2 * a - 256, 27)
Product(a, b) ==
  LET with(p, k) == Xor(Doubled(p), ((b \div 2^k) % 2) * a)
  IN with(with(with(with(with(with(with(with(0, 7), 6), 5), 4), 3), 2), 1), 0)

Inverse(a) == IF a = 0 THEN 0 ELSE CHOOSE b \in 1..255 : Product(a, b) = 1

Affine(a) == LET bit(k) == (a \div 2^(k % 8)) % 2
                 b(k) == ((bit(k) + bit(k + 4) + bit(k + 5) + bit(k + 6) + bit(k + 7)) % 2) * 2^k
             IN Xor(99, b(0) + b(1) + b(2) + b(3) + b(4) + b(5) + b(6) + b(7))
S == [a \in 0..255 |-> Affine(Inverse(a))]

SubstWord(w) == << S[w[1]], S[w[2]], S[w[3]], S[w[4]] >>

PowerOfTwo[n \in 0..9] == IF n = 0 THEN 1 ELSE Doubled(PowerOfTwo[n - 1])

(* The words of the round keys: the first word of every nk takes in the    *)
(* substituted one before it, and in long keys the fourth after it too.    *)
Schedule(key, nk, total) ==
  LET words[n \in nk..total] ==
        IF n = nk THEN key
        ELSE LET w == words[n - 1]
                 t == w[n - 1]
                 k == n - 1
                 u == IF k % nk = 0
                      THEN XorWord(SubstWord(<< t[2], t[3], t[4], t[1] >>),
                                   << PowerOfTwo[k \div nk - 1], 0, 0, 0 >>)
                      ELSE IF nk > 6 /\ k % nk = 4 THEN SubstWord(t) ELSE t
             IN Append(w, XorWord(w[n - nk], u))
  IN words[total]

(* A column times {03}x^3 + {01}x^2 + {01}x + {02}.                        *)
ColumnProduct(c) ==
  LET p(m1, m2, m3, m4) == Xor(Xor(Product(c[1], m1), Product(c[2], m2)),
                               Xor(Product(c[3], m3), Product(c[4], m4)))
  IN << p(2, 3, 1, 1), p(1, 2, 3, 1), p(1, 1, 2, 3), p(3, 1, 1, 2) >>

(* Row r of the new state is row r of the old one, r columns further.      *)
Shifted(s) == LET col(c) == << s[c][1], s[(c % 4) + 1][2], s[((c + 1) % 4) + 1][3], s[((c + 2) % 4) + 1][4] >>
              IN << col(1), col(2), col(3), col(4) >>
Substituted(s) == << SubstWord(s[1]), SubstWord(s[2]), SubstWord(s[3]), SubstWord(s[4]) >>
Mixed(s) == << ColumnProduct(s[1]), ColumnProduct(s[2]), ColumnProduct(s[3]), ColumnProduct(s[4]) >>

(* Round r of nr on s: the key of round 0 is added before the first.       *)
WithRoundKey(s, w, r) == XorBlock(s, << w[4*r + 1], w[4*r + 2], w[4*r + 3], w[4*r + 4] >>)
AfterRound(s, w, r, nr) ==
  LET t == Shifted(Substituted(s)) IN WithRoundKey(IF r = nr THEN t ELSE Mixed(t), w, r)
=============================================================================
