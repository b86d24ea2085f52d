---------------------------------- MODULE Aes ----------------------------------
(***************************************************************************)
(* mdsapi/src/aes.c: AES with keys of 128, 192 or 256 bits in ECB and CBC  *)
(* mode.  The type, the round keys and the pointer Iv are static and stay  *)
(* from one call to the next; Iv points into the caller's buffers.         *)
(*                                                                         *)
(* A step is the start of a block, a round, or the end of a call.  A block *)
(* is its four columns of four bytes; a buffer is its blocks.              *)
(***************************************************************************)
EXTENDS Fips197, FiniteSets

CONSTANTS NULL,     (* no key, no iv, no call                               *)
          Keys,     (* keys of eight words, of which a type uses the first   *)
          Iv0,      (* the array the caller keeps for iv                     *)
          Messages, (* the byte sequences that are encrypted                 *)
          Support,  (* ENCRYPT_API2_MAX_SUPPORT_BUFF_SIZE                    *)
          init_data,(* the byte that fills the last block                    *)
          MaxBlocks,(* bounds: the length of the buffers ...                 *)
          MaxCalls  (* ... and the number of calls                           *)

ASSUME KeyAssumption == Keys \subseteq [1..8 -> [1..4 -> 0..255]]
ASSUME IvAssumption == Iv0 \in [1..4 -> [1..4 -> 0..255]]
ASSUME MessageAssumption == \A m \in Messages : m \in Seq(0..255)
(* Where char is signed a fill of 128 or more is never equal to the byte   *)
(* it left in the buffer, and nothing of it is taken away (aes.c:692).     *)
ASSUME FillAssumption == init_data \in 0..127 /\ MaxBlocks \in Nat \ {0}
(* Room for the message, the rest of its last block and one more.          *)
ASSUME RoomAssumption == \A m \in Messages : 16 * ((Len(m) + 15) \div 16 + 1) <= 16 * MaxBlocks

VARIABLES AES_type,
          RoundKey, (* sixty words                                           *)
          Iv,       (* a buffer and a block of it, or NULL                   *)
          mem,      (* the buffers                                           *)
          at,       (* where the call is                                     *)
          call,     (* what it does, the buffers it does it with             *)
          length,
          i,        (* the blocks done                                       *)
          state,    (* the block in work                                     *)
          round,
          ret,      (* what the call returns                                 *)
          calls,    (* how many calls there were                             *)
          keyed,    (* the key and the type the round keys were made with    *)
          prev,     (* the block the standard chains to                      *)
          ref,      (* state as the standard has it                          *)
          kept,     (* no call has written over the block Iv points to       *)
          made,     (* the last encryption: its message, keys and start      *)
          whole     (* what is decrypted is what it made, its chain intact   *)

static == <<AES_type, RoundKey, Iv>>
work == <<state, round>>
ghosts == <<keyed, prev, ref, kept, made, whole>>
aesvars == <<static, mem, at, call, length, i, work, ret, calls, ghosts>>

AES_TYPE == 0..2
Nk == 4 + 2 * AES_type
Nr == Nk + 6
BLOCKLEN == 16

ZeroWord == << 0, 0, 0, 0 >>
ZeroBlock == << ZeroWord, ZeroWord, ZeroWord, ZeroWord >>
ZeroBuffer == [b \in 1..MaxBlocks |-> ZeroBlock]

BlockOf(m, b) == LET word(k) == << m[k + 1], m[k + 2], m[k + 3], m[k + 4] >>
                     p == BLOCKLEN * (b - 1)
                 IN << word(p), word(p + 4), word(p + 8), word(p + 12) >>
Bytes(s) == s[1] \o s[2] \o s[3] \o s[4]
Buffer(m) == [b \in 1..MaxBlocks |-> BlockOf(m, b)]
ByteAt(buf, k) == Bytes(buf[(k - 1) \div BLOCKLEN + 1])[((k - 1) % BLOCKLEN) + 1]
Filled(m, byte) == Buffer([k \in 1..BLOCKLEN * MaxBlocks |-> IF k <= Len(m) THEN m[k] ELSE byte])
Text(buf, n) == [k \in 1..n |-> ByteAt(buf, k)]

-----------------------------------------------------------------------------
(* The tables.                                                             *)

sbox ==
  <<  99, 124, 119, 123, 242, 107, 111, 197,  48,   1, 103,  43, 254, 215, 171, 118,
     202, 130, 201, 125, 250,  89,  71, 240, 173, 212, 162, 175, 156, 164, 114, 192,
     183, 253, 147,  38,  54,  63, 247, 204,  52, 165, 229, 241, 113, 216,  49,  21,
       4, 199,  35, 195,  24, 150,   5, 154,   7,  18, 128, 226, 235,  39, 178, 117,
       9, 131,  44,  26,  27, 110,  90, 160,  82,  59, 214, 179,  41, 227,  47, 132,
      83, 209,   0, 237,  32, 252, 177,  91, 106, 203, 190,  57,  74,  76,  88, 207,
     208, 239, 170, 251,  67,  77,  51, 133,  69, 249,   2, 127,  80,  60, 159, 168,
      81, 163,  64, 143, 146, 157,  56, 245, 188, 182, 218,  33,  16, 255, 243, 210,
     205,  12,  19, 236,  95, 151,  68,  23, 196, 167, 126,  61, 100,  93,  25, 115,
      96, 129,  79, 220,  34,  42, 144, 136,  70, 238, 184,  20, 222,  94,  11, 219,
     224,  50,  58,  10,  73,   6,  36,  92, 194, 211, 172,  98, 145, 149, 228, 121,
     231, 200,  55, 109, 141, 213,  78, 169, 108,  86, 244, 234, 101, 122, 174,   8,
     186, 120,  37,  46,  28, 166, 180, 198, 232, 221, 116,  31,  75, 189, 139, 138,
     112,  62, 181, 102,  72,   3, 246,  14,  97,  53,  87, 185, 134, 193,  29, 158,
     225, 248, 152,  17, 105, 217, 142, 148, 155,  30, 135, 233, 206,  85,  40, 223,
     140, 161, 137,  13, 191, 230,  66, 104,  65, 153,  45,  15, 176,  84, 187,  22 >>

rsbox ==
  <<  82,   9, 106, 213,  48,  54, 165,  56, 191,  64, 163, 158, 129, 243, 215, 251,
     124, 227,  57, 130, 155,  47, 255, 135,  52, 142,  67,  68, 196, 222, 233, 203,
      84, 123, 148,  50, 166, 194,  35,  61, 238,  76, 149,  11,  66, 250, 195,  78,
       8,  46, 161, 102,  40, 217,  36, 178, 118,  91, 162,  73, 109, 139, 209,  37,
     114, 248, 246, 100, 134, 104, 152,  22, 212, 164,  92, 204,  93, 101, 182, 146,
     108, 112,  72,  80, 253, 237, 185, 218,  94,  21,  70,  87, 167, 141, 157, 132,
     144, 216, 171,   0, 140, 188, 211,  10, 247, 228,  88,   5, 184, 179,  69,   6,
     208,  44,  30, 143, 202,  63,  15,   2, 193, 175, 189,   3,   1,  19, 138, 107,
      58, 145,  17,  65,  79, 103, 220, 234, 151, 242, 207, 206, 240, 180, 230, 115,
     150, 172, 116,  34, 231, 173,  53, 133, 226, 249,  55, 232,  28, 117, 223, 110,
      71, 241,  26, 113,  29,  41, 197, 137, 111, 183,  98,  14, 170,  24, 190,  27,
     252,  86,  62,  75, 198, 210, 121,  32, 154, 219, 192, 254, 120, 205,  90, 244,
      31, 221, 168,  51, 136,   7, 199,  49, 177,  18,  16,  89,  39, 128, 236,  95,
      96,  81, 127, 169,  25, 181,  74,  13,  45, 229, 122, 159, 147, 201, 156, 239,
     160, 224,  59,  77, 174,  42, 245, 176, 200, 235, 187,  60, 131,  83, 153,  97,
      23,  43,   4, 126, 186, 119, 214,  38, 225, 105,  20,  99,  85,  33,  12, 125 >>

Rcon == << 1, 2, 4, 8, 16, 32, 64, 128, 27, 54 >>

getSBoxValue(num) == sbox[num + 1]
getSBoxInvert(num) == rsbox[num + 1]
SubWord(w) == << getSBoxValue(w[1]), getSBoxValue(w[2]), getSBoxValue(w[3]), getSBoxValue(w[4]) >>
InvSubWord(w) == << getSBoxInvert(w[1]), getSBoxInvert(w[2]), getSBoxInvert(w[3]), getSBoxInvert(w[4]) >>
RotWord(w) == << w[2], w[3], w[4], w[1] >>

-----------------------------------------------------------------------------
(* The round keys.  A shorter key leaves the end of the array as it was.   *)

KeyExpansion(key) ==
  LET last == 4 * (Nr + 1)
      words[n \in Nk..last] ==
        IF n = Nk THEN SubSeq(key, 1, Nk)
        ELSE LET w == words[n - 1]
                 k == n - 1
                 tempa == CASE k % Nk = 0 -> XorWord(SubWord(RotWord(w[k])), << Rcon[k \div Nk], 0, 0, 0 >>)
                            [] AES_type = 2 /\ k % Nk = 4 -> SubWord(w[k])
                            [] OTHER -> w[k]
             IN Append(w, XorWord(w[n - Nk], tempa))
  IN words[last] \o SubSeq(RoundKey, last + 1, 60)

(* The round keys as the standard has them.                                *)
StandardKeys == [k \in AES_TYPE \X Keys |->
                   LET n == 4 + 2 * k[1] IN Schedule(SubSeq(k[2], 1, n), n, 4 * (n + 7))]

-----------------------------------------------------------------------------
(* The transformations of a block.                                         *)

AddRoundKey(s, r) ==
  XorBlock(s, << RoundKey[4*r + 1], RoundKey[4*r + 2], RoundKey[4*r + 3], RoundKey[4*r + 4] >>)

SubBytes(s) == << SubWord(s[1]), SubWord(s[2]), SubWord(s[3]), SubWord(s[4]) >>
InvSubBytes(s) == << InvSubWord(s[1]), InvSubWord(s[2]), InvSubWord(s[3]), InvSubWord(s[4]) >>

ShiftRows(s) == << << s[1][1], s[2][2], s[3][3], s[4][4] >>, << s[2][1], s[3][2], s[4][3], s[1][4] >>,
                   << s[3][1], s[4][2], s[1][3], s[2][4] >>, << s[4][1], s[1][2], s[2][3], s[3][4] >> >>
InvShiftRows(s) == << << s[1][1], s[4][2], s[3][3], s[2][4] >>, << s[2][1], s[1][2], s[4][3], s[3][4] >>,
                      << s[3][1], s[2][2], s[1][3], s[4][4] >>, << s[4][1], s[3][2], s[2][3], s[1][4] >> >>

(* Mutant: the bit that is shifted out is not reduced.                     *)
xtimeWraps(x) == (2 * x) % 256

xtime(x) == Xor((2 * x) % 256, IF x >= 128 THEN 27 ELSE 0)

MixColumn(c) ==
  LET Tmp == Xor(Xor(c[1], c[2]), Xor(c[3], c[4]))
      mix(k) == Xor(c[k], Xor(xtime(Xor(c[k], c[(k % 4) + 1])), Tmp))
  IN << mix(1), mix(2), mix(3), mix(4) >>
MixColumns(s) == << MixColumn(s[1]), MixColumn(s[2]), MixColumn(s[3]), MixColumn(s[4]) >>

Multiply(x, y) ==
  LET x2 == xtime(x)
      x4 == xtime(x2)
      x8 == xtime(x4)
      bit(k) == (y \div 2^k) % 2
  IN Xor(Xor(bit(0) * x, bit(1) * x2), Xor(Xor(bit(2) * x4, bit(3) * x8), bit(4) * xtime(x8)))

(* Mutant: the second row of the inverse matrix has two factors swapped.   *)
InvMixColumnSwapped(c) ==
  LET p(m1, m2, m3, m4) == Xor(Xor(Multiply(c[1], m1), Multiply(c[2], m2)),
                               Xor(Multiply(c[3], m3), Multiply(c[4], m4)))
  IN << p(14, 11, 13, 9), p(14, 9, 11, 13), p(13, 9, 14, 11), p(11, 13, 9, 14) >>

InvMixColumn(c) ==
  LET p(m1, m2, m3, m4) == Xor(Xor(Multiply(c[1], m1), Multiply(c[2], m2)),
                               Xor(Multiply(c[3], m3), Multiply(c[4], m4)))
  IN << p(14, 11, 13, 9), p(9, 14, 11, 13), p(13, 9, 14, 11), p(11, 13, 9, 14) >>
InvMixColumns(s) == << InvMixColumn(s[1]), InvMixColumn(s[2]), InvMixColumn(s[3]), InvMixColumn(s[4]) >>

-----------------------------------------------------------------------------
(* The calls.                                                              *)

AesInit == /\ AES_type = 0 /\ RoundKey = [k \in 1..60 |-> ZeroWord] /\ Iv = NULL
        /\ mem = [b \in {"iv", "plain", "cipher", "text", "back"} |->
                    IF b = "iv" THEN << Iv0 >> ELSE ZeroBuffer]
        /\ at = "idle" /\ call = NULL /\ length = 0 /\ i = 0
        /\ state = ZeroBlock /\ round = 0 /\ ret = 0 /\ calls = 0
        /\ keyed = NULL /\ prev = ZeroBlock /\ ref = ZeroBlock
        /\ kept = TRUE /\ made = NULL /\ whole = FALSE

mds_api_AES_init(t) == /\ at = "idle" /\ calls < MaxCalls
                       /\ AES_type' = t
                       /\ keyed' = IF t = AES_type THEN keyed ELSE NULL
                       /\ UNCHANGED <<RoundKey, Iv, mem, at, call, length, i, work, ret, calls,
                                      prev, ref, kept, made, whole>>

(* The blocks the caller, and an ECB call in one go, write before the work *)
(* of a call begins: Iv may point to one of them.                          *)
Refilled(c) == IF c.cbc THEN {c.src} ELSE {c.src, c.dst}

(* key and iv may be NULL: the round keys, and the chain, of the call      *)
(* before are used.  That there are such, made for the type now set, is    *)
(* left to the caller: the code does not look, and would work with round   *)
(* keys of zeroes or of another type, or follow a pointer to nowhere.      *)
Begin(c, n, key, iv) ==
  /\ at = "idle" /\ calls < MaxCalls
  /\ key = NULL => keyed # NULL
  /\ iv = NULL => Iv # NULL \/ ~c.cbc
  /\ RoundKey' = (IF key = NULL THEN RoundKey ELSE KeyExpansion(key))
  /\ keyed' = (IF key = NULL THEN keyed ELSE << AES_type, key >>)
  /\ Iv' = (IF iv = NULL THEN Iv ELSE << iv, 1 >>)
  /\ prev' = (IF iv = NULL THEN prev ELSE mem[iv][1])
  /\ kept' = (iv # NULL \/ (kept /\ (Iv # NULL => Iv[1] \notin Refilled(c))))
  /\ call' = c /\ length' = n /\ i' = 0 /\ at' = "block" /\ calls' = calls + 1
  /\ UNCHANGED <<AES_type, work, ret, ref>>

Encrypt(cbc, pad) == [fn |-> "encrypt", cbc |-> cbc, pad |-> pad, src |-> "plain", dst |-> "cipher"]
Decrypt(cbc, pad) == [fn |-> "decrypt", cbc |-> cbc, pad |-> pad, src |-> "text", dst |-> "back"]
Encrypting == call # NULL /\ call.fn = "encrypt"
Decrypting == call # NULL /\ call.fn = "decrypt"

mds_api_AES_input_buff_get_size(n) == BLOCKLEN * ((n + BLOCKLEN - 1) \div BLOCKLEN)

BeginEncrypt(c, m, n, key, iv) ==
  /\ Begin(c, n, key, iv)
  /\ mem' = [mem EXCEPT !["plain"] = Filled(m, init_data)]
  /\ made' = [msg |-> m, len |-> n, call |-> c,
              keyed |-> keyed', start |-> prev', kept |-> kept']
  /\ UNCHANGED whole

mds_api_AES_CBC_encrypt_buffer(m, key, iv) == BeginEncrypt(Encrypt(TRUE, FALSE), m, Len(m), key, iv)

(* The malloc version has no limit.                                        *)
mds_api_AES_CBC_encrypt_buffer2_malloc(m, key, iv) ==
  BeginEncrypt(Encrypt(TRUE, TRUE), m, mds_api_AES_input_buff_get_size(Len(m)), key, iv)

mds_api_AES_CBC_encrypt_buffer2(m, key, iv) ==
  IF Len(m) <= Support - BLOCKLEN
  THEN mds_api_AES_CBC_encrypt_buffer2_malloc(m, key, iv)
  ELSE /\ at = "idle" /\ calls < MaxCalls
       /\ ret' = -1 /\ at' = "done" /\ calls' = calls + 1
       /\ call' = Encrypt(TRUE, TRUE)
       /\ UNCHANGED <<static, mem, length, i, work, ghosts>>

(* A text is put into a buffer of the caller and decrypted from there into *)
(* another one: in place, Iv would point to the block written over.        *)
BeginDecrypt(c, text, n, key, iv) ==
  /\ made # NULL
  /\ Begin(c, n, key, iv)
  /\ mem' = [mem EXCEPT ![c.src] = Filled(text, 0)]
  /\ whole' = /\ keyed' = made.keyed /\ c.cbc = made.call.cbc
              /\ c.cbc => prev' = made.start /\ made.kept /\ kept'
              /\ Len(text) <= made.len /\ text = Text(mem["cipher"], Len(text))
  /\ UNCHANGED made

mds_api_AES_CBC_decrypt_buffer(text, key, iv) == BeginDecrypt(Decrypt(TRUE, FALSE), text, Len(text), key, iv)
mds_api_AES_CBC_decrypt_buffer2(text, key, iv) == BeginDecrypt(Decrypt(TRUE, TRUE), text, Len(text), key, iv)

(* One block is encrypted, and what is beyond it copied: Messages of one.  *)
mds_api_AES_ECB_encrypt(m, key) == Len(m) = BLOCKLEN /\ BeginEncrypt(Encrypt(FALSE, FALSE), m, BLOCKLEN, key, NULL)
mds_api_AES_ECB_decrypt(text, key) ==
  Len(text) = BLOCKLEN /\ BeginDecrypt(Decrypt(FALSE, FALSE), text, BLOCKLEN, key, NULL)

-----------------------------------------------------------------------------
(* The blocks of a call, and after the last one, when the length does not  *)
(* divide, one more that is not chained.                                   *)

More == i * BLOCKLEN < length
Extra == ~More /\ length % BLOCKLEN # 0
Chained(s) == IF call.cbc /\ More THEN XorBlock(s, mem[Iv[1]][Iv[2]]) ELSE s

(* What is worked on in the extra block: the rest of the input over what   *)
(* is in the output.                                                       *)
ExtraInput ==
  LET in == Bytes(mem[call.src][i + 1])
      out == Bytes(mem[call.dst][i + 1])
  IN BlockOf([k \in 1..BLOCKLEN |-> IF k <= length % BLOCKLEN THEN in[k] ELSE out[k]], 1)

StartBlock ==
  /\ at = "block" /\ (More \/ Extra)
  /\ LET in == IF More THEN mem[call.src][i + 1] ELSE ExtraInput
         x == IF Encrypting THEN Chained(in) ELSE in
     IN /\ state' = AddRoundKey(x, IF Encrypting THEN 0 ELSE Nr)
        /\ mem' = IF Encrypting /\ More /\ call.cbc THEN [mem EXCEPT ![call.src][i + 1] = x] ELSE mem
  /\ round' = IF Encrypting THEN 1 ELSE Nr - 1
  /\ ref' = IF Encrypting /\ More
            THEN WithRoundKey(XorBlock(Filled(made.msg, init_data)[i + 1], IF call.cbc THEN prev ELSE ZeroBlock), StandardKeys[keyed], 0)
            ELSE ref
  /\ at' = "round"
  /\ UNCHANGED <<static, call, length, i, ret, calls, keyed, prev, kept, made, whole>>

Round ==
  /\ at = "round"
  /\ \/ /\ Encrypting /\ round < Nr
        /\ state' = AddRoundKey(MixColumns(ShiftRows(SubBytes(state))), round)
        /\ round' = round + 1
        /\ ref' = AfterRound(ref, StandardKeys[keyed], round, Nr)
     \/ /\ Decrypting /\ round > 0
        /\ state' = InvMixColumns(AddRoundKey(InvSubBytes(InvShiftRows(state)), round))
        /\ round' = round - 1
        /\ UNCHANGED ref
  /\ UNCHANGED <<static, mem, at, call, length, i, ret, calls, keyed, prev, kept, made, whole>>

(* Iv follows the blocks of the loop, not the extra one.                   *)
NextBlock(out, chain) ==
  /\ mem' = [mem EXCEPT ![call.dst][i + 1] = out]
  /\ Iv' = IF call.cbc /\ More THEN << IF Encrypting THEN call.dst ELSE call.src, i + 1 >> ELSE Iv
  /\ prev' = IF call.cbc /\ More THEN chain ELSE prev
  /\ i' = i + 1
  /\ at' = IF More THEN "block" ELSE "end"
  /\ UNCHANGED <<AES_type, RoundKey, call, length, round, ret, calls, keyed, kept, made, whole>>

EncryptLast ==
  /\ at = "round" /\ Encrypting /\ round = Nr
  /\ state' = AddRoundKey(ShiftRows(SubBytes(state)), Nr)
  /\ ref' = AfterRound(ref, StandardKeys[keyed], Nr, Nr)
  /\ NextBlock(state', ref')

DecryptLast ==
  /\ at = "round" /\ Decrypting /\ round = 0
  /\ state' = Chained(AddRoundKey(InvSubBytes(InvShiftRows(state)), 0))
  /\ NextBlock(state', mem[call.src][i + 1])
  /\ UNCHANGED ref

-----------------------------------------------------------------------------
(* Mutant: the size is that of the string as it is ended.                  *)
KeptLong(buf, n) == 1 + (CHOOSE k \in 0..n : /\ \A j \in (k + 1)..n : ByteAt(buf, j) = init_data
                                                     /\ k > 0 => ByteAt(buf, k) # init_data)

(* mds_api_AES_CBC_decrypt_buffer2 takes the fill away again, and ends the *)
(* string one byte too late.                                               *)
Kept(buf, n) == CHOOSE k \in 0..n : /\ \A j \in (k + 1)..n : ByteAt(buf, j) = init_data
                                    /\ k > 0 => ByteAt(buf, k) # init_data

WithNul(buf, k) ==
  LET b == (k - 1) \div BLOCKLEN + 1
  IN IF b > MaxBlocks THEN buf
     ELSE [buf EXCEPT ![b] = BlockOf([Bytes(buf[b]) EXCEPT ![((k - 1) % BLOCKLEN) + 1] = 0], 1)]

End ==
  /\ at = "end" \/ (at = "block" /\ ~More /\ ~Extra)
  /\ IF Decrypting /\ call.pad
     THEN /\ ret' = Kept(mem["back"], length)
          /\ mem' = [mem EXCEPT !["back"] = WithNul(mem["back"], ret' + 2)]
     ELSE /\ ret' = length /\ UNCHANGED mem
  /\ at' = "done"
  /\ UNCHANGED <<static, call, length, i, work, calls, ghosts>>

(* The padded copy, and the array for the message, are the call's own.     *)
Return ==
  /\ at = "done"
  /\ at' = "idle" /\ call' = NULL /\ length' = 0 /\ i' = 0 /\ ret' = 0
  /\ state' = ZeroBlock /\ round' = 0 /\ ref' = ZeroBlock /\ whole' = FALSE
  /\ mem' = [mem EXCEPT !["plain"] = ZeroBuffer, !["back"] = ZeroBuffer]
  /\ UNCHANGED <<static, calls, keyed, prev, kept, made>>

Work == StartBlock \/ Round \/ EncryptLast \/ DecryptLast \/ End \/ Return

CallEncrypt ==
  at = "idle" /\ \E m \in Messages, key \in Keys \cup {NULL}, iv \in {"iv", NULL} :
    \/ mds_api_AES_CBC_encrypt_buffer(m, key, iv)
    \/ mds_api_AES_CBC_encrypt_buffer2(m, key, iv)
    \/ mds_api_AES_CBC_encrypt_buffer2_malloc(m, key, iv)
    \/ key # NULL /\ mds_api_AES_ECB_encrypt(m, key)

CallDecrypt(text) ==
  at = "idle" /\ \E key \in Keys \cup {NULL}, iv \in {"iv", NULL} :
    \/ mds_api_AES_CBC_decrypt_buffer(text, key, iv)
    \/ mds_api_AES_CBC_decrypt_buffer2(text, key, iv)
    \/ key # NULL /\ mds_api_AES_ECB_decrypt(text, key)

-----------------------------------------------------------------------------
(* After every round of a block the state is what the standard has there,  *)
(* for every type of key, and for the chain that a call without an iv      *)
(* continues from an output buffer which it is about to write again, as    *)
(* long as nothing else was written there in the meantime.                 *)
EncryptsAsDefined ==
  Encrypting /\ (call.cbc => kept) /\ ((at = "round" /\ More) \/ (at = "block" /\ i > 0)) =>
    /\ state = ref
    /\ at = "block" => mem["cipher"][i] = ref

(* What an encryption has made is decrypted to its message, block by       *)
(* block, under the same key and chain, also when the text was cut off or  *)
(* the key is not given again.                                             *)
DecryptsBack ==
  Decrypting /\ whole /\ at \in {"block", "round"} =>
    \A b \in 1..i : b <= length \div BLOCKLEN => mem["back"][b] = Filled(made.msg, init_data)[b]

(* Nothing of the message is taken for fill, and no fill for message.      *)
MessageComesBack ==
  (at = "done" /\ Decrypting /\ call.pad /\ whole /\ length = made.len /\ made.call.pad) =>
    LET m == made.msg IN
    (m = << >> \/ m[Len(m)] # init_data) => ret = Len(m) /\ Text(mem["back"], Len(m)) = m
=============================================================================
