-------------------------------- MODULE MCCodec --------------------------------
(***************************************************************************)
(* The codec on small inputs.  The first key and the first message are     *)
(* those of the test vectors in the head of aes.c.                         *)
(***************************************************************************)
EXTENDS Codec

MCKey == << << 43, 126, 21, 22 >>, << 40, 174, 210, 166 >>, << 171, 247, 21, 136 >>, << 9, 207, 79, 60 >>,
            << 1, 2, 3, 4 >>, << 250, 251, 252, 253 >>, << 0, 255, 128, 127 >>, << 17, 34, 51, 68 >> >>
MCKeys == {MCKey}
MCIv == << << 73, 106, 107, 108 >>, << 54, 55, 118, 99 >>, << 53, 65, 69, 84 >>, << 66, 102, 70, 79 >> >>

MCBlock == << 107, 193, 190, 226, 46, 64, 159, 150, 233, 61, 126, 17, 115, 147, 23, 42 >>
MCLong == MCBlock \o << 174, 45, 8, 87, 30 >>

(* Messages shorter than a block, of a block, of more, and one too long    *)
(* for mds_api_AES_CBC_encrypt_buffer2.                                    *)
MCMessages == { SubSeq(MCLong, 1, 5), MCBlock, MCLong }
=============================================================================
