---------------------------- MODULE CraftCipher ----------------------------
(***************************************************************************)
(* CraftCipher of src/cfb8.rs at the level of bytes: AES-128 in CFB8 mode. *)
(* encrypt and decrypt run the block cipher once per byte of the slice     *)
(* (encrypt_block_mut / decrypt_block_mut on a one-byte block): the byte   *)
(* is XORed with the first byte of AES_k(register), and the ciphertext     *)
(* byte is shifted into the register, which starts as the iv.              *)
(*                                                                         *)
(* A writer's encryptor and a reader's decryptor share key and iv.  The    *)
(* writer encrypts whole frames; the reader decrypts in whatever slices    *)
(* its read path cuts (one byte of the length prefix at a time, the rest   *)
(* of the frame in one call).  CraftReader abstracts the decryptor to the  *)
(* wire positions in its register; this module checks that abstraction    *)
(* against the byte-level cipher.                                          *)
(***************************************************************************)
EXTENDS Integers, SequencesExt, Bitwise

CONSTANTS
  BlockBytes,   \* AES block size, the register's length (16)
  ByteBits,     \* bits of a byte (8)
  Key,          \* the key, as the seed of the block-cipher stand-in
  Iv,           \* the iv, the register's first contents
  Plaintexts,   \* what one write may encrypt (a frame)
  MaxWire,      \* how many bytes the writer writes at most
  ReadSizes     \* how many bytes one decrypt call may take

Byte == 0 .. (2 ^ ByteBits - 1)

ASSUME Iv \in [1 .. BlockBytes -> Byte] /\ Key \in Nat
ASSUME Plaintexts \subseteq Seq(Byte) /\ ReadSizes \subseteq Nat \ {0}

VARIABLES
  enc,     \* the writer's Encryptor<Aes128>: its register
  dec,     \* the reader's Decryptor<Aes128>: its register
  plain,   \* what the writer encrypted
  wire,    \* the ciphertext it wrote
  out      \* what the reader decrypted so far

vars == <<enc, dec, plain, wire, out>>

\* The first byte of AES_k(register).  Any fixed function of the whole
\* register stands for it: what CFB8 needs is that both sides compute it
\* alike from equal registers.
RECURSIVE BlockCipher(_)
BlockCipher(reg) ==
  IF reg = <<>> THEN Key % 2 ^ ByteBits
  ELSE (5 * BlockCipher(Tail(reg)) + 3 * Head(reg) + 1) % 2 ^ ByteBits

\* One byte through Encryptor::encrypt_block_mut.
EncryptByte(reg, p) ==
  LET c == p ^^ BlockCipher(reg)
  IN [out |-> c, reg |-> Append(Tail(reg), c)]

\* Variant: the decrypted byte is fed back (CFB with plaintext feedback).
DecryptBytePlainFeedback(reg, c) ==
  LET p == c ^^ BlockCipher(reg)
  IN [out |-> p, reg |-> Append(Tail(reg), p)]

\* Variant: the register is appended to but never shifted.
DecryptByteUnshifted(reg, c) ==
  [out |-> c ^^ BlockCipher(reg), reg |-> Append(reg, c)]

\* One byte through Decryptor::decrypt_block_mut: the ciphertext byte,
\* not the plaintext, is shifted in.
DecryptByte(reg, c) ==
  [out |-> c ^^ BlockCipher(reg), reg |-> Append(Tail(reg), c)]

\* CraftCipher::encrypt: every byte of the slice, in order.
RECURSIVE Encrypt(_, _)
Encrypt(reg, data) ==
  IF data = <<>> THEN [out |-> <<>>, reg |-> reg]
  ELSE LET b == EncryptByte(reg, Head(data))
           r == Encrypt(b.reg, Tail(data))
       IN [out |-> <<b.out>> \o r.out, reg |-> r.reg]

\* Variant: only the first byte of the slice goes through the cipher.
DecryptFirstOnly(reg, data) ==
  IF data = <<>> THEN [out |-> <<>>, reg |-> reg]
  ELSE LET b == DecryptByte(reg, Head(data))
       IN [out |-> <<b.out>> \o Tail(data), reg |-> b.reg]

\* CraftCipher::decrypt: every byte of the slice, in order.
RECURSIVE Decrypt(_, _)
Decrypt(reg, data) ==
  IF data = <<>> THEN [out |-> <<>>, reg |-> reg]
  ELSE LET b == DecryptByte(reg, Head(data))
           r == Decrypt(b.reg, Tail(data))
       IN [out |-> <<b.out>> \o r.out, reg |-> r.reg]

Init ==
  \* CraftCipher::new(key, iv, true) and CraftCipher::new(key, iv, false)
  /\ enc = Iv /\ dec = Iv
  /\ plain = <<>> /\ wire = <<>> /\ out = <<>>

\* The writer encrypts a frame in place and writes it.
Write ==
  \E p \in Plaintexts :
    LET e == Encrypt(enc, p)
    IN /\ Len(wire) + Len(p) <= MaxWire
       /\ enc' = e.reg
       /\ plain' = plain \o p
       /\ wire' = wire \o e.out
       /\ UNCHANGED <<dec, out>>

\* The reader decrypts the next n bytes of the wire in one call.
Read ==
  \E n \in ReadSizes :
    LET d == Decrypt(dec, SubSeq(wire, Len(out) + 1, Len(out) + n))
    IN /\ Len(out) + n <= Len(wire)
       /\ dec' = d.reg
       /\ out' = out \o d.out
       /\ UNCHANGED <<enc, plain, wire>>

Next == Write \/ Read

Spec == Init /\ [][Next]_vars

TypeOK ==
  /\ enc \in [1 .. BlockBytes -> Byte] /\ dec \in [1 .. BlockBytes -> Byte]
  /\ plain \in Seq(Byte) /\ wire \in Seq(Byte) /\ out \in Seq(Byte)

\* The last BlockBytes bytes of the iv followed by s.
Register(s) == LET t == Iv \o s IN SubSeq(t, Len(t) - BlockBytes + 1, Len(t))

(***************************************************************************)
(* Round trip (spec.md 8.5, 4.2): whatever slices the reader decrypts the  *)
(* ciphertext in -- bytes one at a time as read_packet_len_sync does, or   *)
(* many in one call as read_untyped_packet_in_buf does -- it gets back     *)
(* what the writer encrypted, in order.                                    *)
(***************************************************************************)
RoundTrip == IsPrefix(out, plain)

(***************************************************************************)
(* What CraftReader's abstraction of the decryptor rests on: after any     *)
(* sequence of decrypt calls, the decryptor's register is the iv followed  *)
(* by the ciphertext bytes it was fed, the last BlockBytes of them; and    *)
(* the writer's is that of the whole wire.  So the reader's register is    *)
(* the writer's register at the same wire position (CorrectRegister).      *)
(***************************************************************************)
RegisterIsCiphertext ==
  /\ dec = Register(SubSeq(wire, 1, Len(out)))
  /\ enc = Register(wire)

=============================================================================
