------------------------------- MODULE MCKsa -------------------------------
(***************************************************************************)
(* TLC instance of Ksa: bytes of two bits with the real exclusive or, a    *)
(* key space of 64 keys and every ciphertext of L bytes.  With one plain   *)
(* byte out of four and L = 3, some ciphertexts are found early, some late *)
(* and some never.                                                         *)
(***************************************************************************)
EXTENDS Ksa

Bits == INSTANCE Bitwise

MCXor == [p \in Byte \X Byte |-> Bits!^^(p[1], p[2])]
=============================================================================
