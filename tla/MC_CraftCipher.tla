--------------------------- MODULE MC_CraftCipher ---------------------------
(***************************************************************************)
(* Model-checking instance of CraftCipher: 2-bit bytes and a 2-byte        *)
(* register, so the register is overwritten within one frame and a slice   *)
(* can be longer than it.                                                  *)
(***************************************************************************)
EXTENDS CraftCipher

MCIv == <<2, 1>>

\* Every frame of one to three bytes.
MCPlaintexts == {p \in BoundedSeq(Byte, 3) : p # <<>>}

=============================================================================
