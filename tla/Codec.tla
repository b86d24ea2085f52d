--------------------------------- MODULE Codec ---------------------------------
(***************************************************************************)
(* What testapp/mds_api_aes_test.c does with module Aes and module Base64: *)
(* a message is encrypted, the result encoded, the text decoded again and  *)
(* decrypted.  Each part is also called on its own.                        *)
(***************************************************************************)
EXTENDS Aes, Base64

vars == <<aesvars, b64vars>>

Init == AesInit /\ B64Init

(* The size of the arrays the programs use.                                *)
ArraySize == 512

(* Base64 on its own, in programs that never encrypt.                      *)
JustBase64 == calls = 0 /\ AES_type = 0 /\ B64Next /\ UNCHANGED aesvars

(* Bound: the third and last call continues what there is: with a key of   *)
(* 128 bits it encrypts one more message, not filled by the call itself.   *)
WithinBound == at = "idle" /\ calls = 2 => /\ AES_type = 0 /\ UNCHANGED static
                                           /\ at' # "idle" /\ call' = Encrypt(TRUE, FALSE)

(* A text that is decrypted is the last cipher, or has lost its end.       *)
JustAes == /\ op = "none"
           /\ \/ \E t \in AES_TYPE : mds_api_AES_init(t)
              \/ CallEncrypt
              \/ made # NULL /\ \E n \in {made.len, made.len - 4} :
                   n > 0 /\ CallDecrypt(Text(mem["cipher"], n))
              \/ Work
           /\ WithinBound
           /\ UNCHANGED b64vars

(* Bound: the text is made of what the first call encrypted.               *)
EncodeCipher == /\ calls = 1 /\ op = "none" /\ at = "done" /\ Encrypting /\ ret > 0
                /\ Call("encode", Text(mem["cipher"], ret), ArraySize)
                /\ Return

Transport == /\ calls > 0
             /\ Encode \/ Decode \/ DecodeResult(ArraySize)
             /\ UNCHANGED aesvars

DecryptText == /\ calls > 0 /\ op = "decode" /\ result >= 0
               /\ \E key \in Keys \cup {NULL}, iv \in {"iv", NULL} :
                    mds_api_AES_CBC_decrypt_buffer2(SubSeq(out, 1, result), key, iv)
               /\ Forget

Next == JustBase64 \/ JustAes \/ EncodeCipher \/ Transport \/ DecryptText

Spec == Init /\ [][Next]_vars
=============================================================================
