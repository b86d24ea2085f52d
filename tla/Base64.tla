-------------------------------- MODULE Base64 --------------------------------
(***************************************************************************)
(* mds_api_b64_encode and mds_api_b64_decode of mdsapi/src/base64.c: one   *)
(* step takes one character of the source and, when a group is complete,   *)
(* writes it to the caller's buffer, whose size the calls respect.         *)
(*                                                                         *)
(* A call encodes bytes or decodes a text; a text that has been encoded is *)
(* decoded again.  Module Codec puts it behind the encryption.             *)
(***************************************************************************)
EXTENDS Integers, Sequences

CONSTANTS Byte,         (* the bytes that are encoded                        *)
          Char,         (* the characters of the texts that are decoded      *)
          MaxByte,      (* bounds on the lengths of sources ...              *)
          MaxChar,
          MaxBuff       (* ... and on out_buff_len                           *)

b64_table ==
  << "A", "B", "C", "D", "E", "F", "G", "H", "I", "J", "K", "L", "M", "N", "O", "P",
     "Q", "R", "S", "T", "U", "V", "W", "X", "Y", "Z", "a", "b", "c", "d", "e", "f",
     "g", "h", "i", "j", "k", "l", "m", "n", "o", "p", "q", "r", "s", "t", "u", "v",
     "w", "x", "y", "z", "0", "1", "2", "3", "4", "5", "6", "7", "8", "9", "+", "/" >>

Digit == {b64_table[l] : l \in 1..64}
Pad == "="

ASSUME SourceAssumption == Byte \subseteq 0..255 /\ Char \subseteq STRING
ASSUME BoundAssumption == MaxByte \in Nat /\ MaxChar \in Nat /\ MaxBuff \in Nat

VARIABLES op,           (* what the call does, and what comes next           *)
          src, pos,     (* the source, and how much of it has been taken     *)
          tmp,          (* the characters of a group that is not complete    *)
          out,          (* what has been written to out_buff                 *)
          out_buff_len,
          result,       (* the size, -1, or Running                          *)
          message       (* the bytes the text was made of, when it was made  *)

b64vars == <<op, src, pos, tmp, out, out_buff_len, result, message>>

Running == -2
Unknown == << -1 >>
SeqUpTo(S, n) == UNION {[1..k -> S] : k \in 0..n}

B64Init == /\ op = "none" /\ src = << >> /\ pos = 0 /\ tmp = << >> /\ out = << >>
        /\ out_buff_len = 0 /\ result = Running /\ message = Unknown

Taken == Append(tmp, src[pos + 1])

Call(o, s, n) == /\ op = "none"
                 /\ op' = o /\ src' = s /\ out_buff_len' = n
                 /\ message' = IF o = "encode" THEN s ELSE Unknown
                 /\ UNCHANGED <<pos, tmp, out, result>>

Fail == /\ result' = -1
        /\ UNCHANGED <<op, src, pos, tmp, out, out_buff_len, message>>
Room(n) == out_buff_len >= Len(out) + n

-----------------------------------------------------------------------------
(* mds_api_b64_encode                                                      *)

(* Mutant: the low bits of the second byte are lost. *)
SextetsShort(t) == << t[1] \div 4,
                      (t[1] % 4) * 16 + t[2] \div 16,
                      (t[2] % 16) * 4,
                      t[3] % 64 >>

(* The four values of six bits of a group of three bytes.                  *)
Sextets(t) == << t[1] \div 4,
                 (t[1] % 4) * 16 + t[2] \div 16,
                 (t[2] % 16) * 4 + t[3] \div 64,
                 t[3] % 64 >>

Digits(t) == LET s == Sextets(t) IN [k \in 1..4 |-> b64_table[s[k] + 1]]

Encoding == op = "encode" /\ result = Running

EncodeByte ==
    /\ Encoding /\ pos < Len(src)
    /\ IF Len(tmp) < 2
       THEN /\ tmp' = Taken /\ pos' = pos + 1
            /\ UNCHANGED <<op, src, out, out_buff_len, result, message>>
       ELSE IF Room(4)
       THEN /\ out' = out \o Digits(Taken)
            /\ tmp' = << >> /\ pos' = pos + 1
            /\ UNCHANGED <<op, src, out_buff_len, result, message>>
       ELSE Fail

(* Mutant: as many digits as there are bytes. *)
RestShort(t) == LET d == Digits([k \in 1..3 |-> IF k <= Len(t) THEN t[k] ELSE 0])
                IN [k \in 1..4 |-> IF k <= Len(t) THEN d[k] ELSE Pad]

(* The remainder, filled with zeroes: a digit more than there are bytes,   *)
(* and padding.                                                            *)
Rest(t) == LET d == Digits([k \in 1..3 |-> IF k <= Len(t) THEN t[k] ELSE 0])
           IN [k \in 1..4 |-> IF k <= Len(t) + 1 THEN d[k] ELSE Pad]

(* The characters are written one by one until the buffer is full.         *)
EncodeRest ==
    /\ Encoding /\ pos = Len(src) /\ tmp # << >>
    /\ out' = out \o (IF Room(4) THEN Rest(tmp) ELSE SubSeq(Rest(tmp), 1, out_buff_len - Len(out)))
    /\ tmp' = << >>
    /\ result' = IF Room(4) THEN Running ELSE -1
    /\ UNCHANGED <<op, src, pos, out_buff_len, message>>

(* The string is ended, which takes a byte the size does not count.        *)
EndString == IF Room(1) THEN /\ result' = Len(out)
                             /\ UNCHANGED <<op, src, pos, tmp, out, out_buff_len, message>>
             ELSE Fail

EncodeEnd == Encoding /\ pos = Len(src) /\ tmp = << >> /\ EndString

-----------------------------------------------------------------------------
(* mds_api_b64_decode                                                      *)

Decoding == op = "decode" /\ result = Running
MoreDigits == pos < Len(src) /\ src[pos + 1] \in Digit

(* What a digit stands for; the fill of an incomplete group is zero.       *)
Value(c) == CHOOSE l \in 0..63 : b64_table[l + 1] = c

Octets(v) == << v[1] * 4 + v[2] \div 16,
                (v[2] % 16) * 16 + v[3] \div 4,
                (v[3] % 4) * 64 + v[4] >>
Group(t) == Octets([k \in 1..4 |-> IF k <= Len(t) THEN Value(t[k]) ELSE 0])

DecodeDigit ==
    /\ Decoding /\ MoreDigits
    /\ IF Len(tmp) < 3
       THEN /\ tmp' = Taken /\ pos' = pos + 1
            /\ UNCHANGED <<op, src, out, out_buff_len, result, message>>
       ELSE IF Room(3)
       THEN /\ out' = out \o Group(Taken)
            /\ tmp' = << >> /\ pos' = pos + 1
            /\ UNCHANGED <<op, src, out_buff_len, result, message>>
       ELSE Fail

(* Mutant: as many bytes as there are digits. *)
DecodeRestLong ==
    /\ Decoding /\ ~MoreDigits /\ tmp # << >>
    /\ IF Room(Len(tmp) - 1)
       THEN /\ out' = out \o SubSeq(Group(tmp), 1, Len(tmp))
            /\ tmp' = << >>
            /\ UNCHANGED <<op, src, pos, out_buff_len, result, message>>
       ELSE Fail

(* A byte less than there are digits, after the last digit or the first    *)
(* character that is none.                                                 *)
DecodeRest ==
    /\ Decoding /\ ~MoreDigits /\ tmp # << >>
    /\ IF Room(Len(tmp) - 1)
       THEN /\ out' = out \o SubSeq(Group(tmp), 1, Len(tmp) - 1)
            /\ tmp' = << >>
            /\ UNCHANGED <<op, src, pos, out_buff_len, result, message>>
       ELSE Fail

DecodeEnd == Decoding /\ ~MoreDigits /\ tmp = << >> /\ EndString

-----------------------------------------------------------------------------
(* An encoded text is decoded into a buffer of n bytes.                    *)
DecodeResult(n) == /\ op = "encode" /\ result >= 0
                   /\ op' = "decode" /\ src' = out /\ pos' = 0 /\ out' = << >>
                   /\ out_buff_len' = n
                   /\ result' = Running
                   /\ UNCHANGED <<tmp, message>>

(* The program is done with the result.                                    *)
Forget == /\ result # Running
          /\ op' = "none" /\ src' = << >> /\ pos' = 0 /\ tmp' = << >> /\ out' = << >>
          /\ out_buff_len' = 0 /\ result' = Running /\ message' = Unknown

Encode == EncodeByte \/ EncodeRest \/ EncodeEnd
Decode == DecodeDigit \/ DecodeRest \/ DecodeEnd

NewCall == /\ op = "none"
           /\ \E n \in 0..MaxBuff : \/ \E s \in SeqUpTo(Byte, MaxByte) : Call("encode", s, n)
                                  \/ \E s \in SeqUpTo(Char, MaxChar) : Call("decode", s, n)

B64Next == NewCall \/ Encode \/ Decode \/ \E n \in 0..MaxBuff : DecodeResult(n)

-----------------------------------------------------------------------------
(* The definition of the encoding: the bytes as a string of bits, taken    *)
(* six by six, and back.                                                   *)

(* Bit k of a sequence of values of w bits, the highest first; 0 after the end. *)
Bit(s, w, k) == IF (k - 1) \div w < Len(s)
                THEN (s[(k - 1) \div w + 1] \div 2^(w - 1 - ((k - 1) % w))) % 2
                ELSE 0
(* The n-th value of w bits of a sequence of values of v bits.             *)
Regrouped(s, v, w, n) ==
    LET b(j) == Bit(s, v, w * (n - 1) + j) * 2^(w - j)
    IN IF w = 6 THEN b(1) + b(2) + b(3) + b(4) + b(5) + b(6)
       ELSE b(1) + b(2) + b(3) + b(4) + b(5) + b(6) + b(7) + b(8)

Encoded(s) == [n \in 1..4 * ((Len(s) + 2) \div 3) |->
                 IF 6 * (n - 1) < 8 * Len(s) THEN b64_table[Regrouped(s, 8, 6, n) + 1] ELSE Pad]

(* A text stands for its digits up to the first character that is none.    *)
DigitsOf(t) == LET n == CHOOSE k \in 0..Len(t) : /\ \A j \in 1..k : t[j] \in Digit
                                                 /\ k < Len(t) => t[k + 1] \notin Digit
               IN [k \in 1..n |-> Value(t[k])]
Decoded(t) == LET d == DigitsOf(t) IN [n \in 1..(6 * Len(d)) \div 8 |-> Regrouped(d, 6, 8, n)]

-----------------------------------------------------------------------------
(* Encoding gives the base64 text of the source, with its padding, or -1   *)
(* exactly when the text and its end do not fit.                           *)
EncodesAsDefined ==
    op = "encode" /\ result # Running =>
        LET e == Encoded(src) IN IF Len(e) < out_buff_len THEN out = e /\ result = Len(e) ELSE result = -1

(* Decoding gives the bytes a text stands for, whatever its length and     *)
(* whatever follows its digits, or -1 exactly when they do not fit.        *)
DecodesAsDefined ==
    op = "decode" /\ result # Running =>
        LET d == Decoded(src) IN IF Len(d) < out_buff_len THEN out = d /\ result = Len(d) ELSE result = -1

(* What was encoded is what is decoded.                                    *)
RoundTrip == op = "decode" /\ message # Unknown /\ result >= 0 => out = message
=============================================================================
