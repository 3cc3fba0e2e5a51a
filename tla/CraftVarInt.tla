---------------------------- MODULE CraftVarInt ----------------------------
(***************************************************************************)
(* The length VarInt of read_packet_len_sync on its own: one call of the   *)
(* loop fed the bytes the transport carries, one read_byte_sync per        *)
(* iteration, the end of the bytes being read_exact's UnexpectedEof.       *)
(* Decryption is left out (CraftReader has it): the loop sees plaintext.   *)
(*                                                                         *)
(* The reader decodes VarInts with two pieces of code: the outer length    *)
(* with this loop, the data length and the packet id with mcproto's        *)
(* VarInt::mc_deserialize (read_untyped_packet_in_buf).  Every byte string *)
(* of up to five bytes, and every run of five continuation bytes and one   *)
(* more, is fed to the loop and compared with both the encoder and the     *)
(* other decoder.                                                          *)
(***************************************************************************)
EXTENDS CraftWire

CONSTANT Inputs   \* the byte strings the transport may carry

ASSUME Inputs \subseteq Seq(Bytes)

VARIABLES
  input,     \* what the transport carries
  position,  \* the loop's `position`: bytes read so far
  value,     \* the loop's `value: i32`
  outcome    \* "reading", or how the call ended: "done" (Ok(Some)),
             \* "none" (Ok(None)), "panic" ("VarInt too long")

vars == <<input, position, value, outcome>>

Init ==
  /\ input \in Inputs
  /\ position = 0 /\ value = 0 /\ outcome = "reading"

\* read_byte_sync finds no byte: check_unexpected_eof! turns the
\* UnexpectedEof into Ok(None), which rr_unwrap! returns from the loop.
LenByteEof ==
  /\ outcome = "reading" /\ position = Len(input)
  /\ outcome' = "none"
  /\ UNCHANGED <<input, position, value>>

\* One iteration of the loop on the next byte.
LenByte ==
  /\ outcome = "reading" /\ position < Len(input)
  /\ LET step == LenLoopStep(value, input[position + 1], position)
     IN /\ value' = step.value
        /\ outcome' = IF step.next = "more" THEN "reading" ELSE step.next
  /\ position' = position + 1
  /\ UNCHANGED input

Next == LenByteEof \/ LenByte

Spec == Init /\ [][Next]_vars

\* Reference: the little-endian septets of a byte string, as a number.
RECURSIVE SeptetSum(_)
SeptetSum(s) == IF s = <<>> THEN 0 ELSE (Head(s) % Base) + Base * SeptetSum(Tail(s))

\* s is what VarInt::mc_serialize writes for some i32.
IsEncoding(s) == s # <<>> /\ VarIntEncode(I32(SeptetSum(s))) = s

(***************************************************************************)
(* spec.md 4.3: the decoder matches the encoder for all i32 values.  Fed   *)
(* the bytes mc_serialize writes for any i32 -- a five-byte negative one   *)
(* included -- the loop never panics, and it returns that value having     *)
(* read exactly those bytes (the `& 0x7F` mask, the `position * 7` shift   *)
(* and the i32 wrap of the last septet in read_packet_len_sync).           *)
(***************************************************************************)
LengthRoundTrip ==
  IsEncoding(input) =>
    /\ outcome # "panic"
    /\ outcome = "done" => value = I32(SeptetSum(input)) /\ position = Len(input)

(***************************************************************************)
(* The loop and VarInt::mc_deserialize read every byte string alike: the   *)
(* loop returns a length exactly when mc_deserialize decodes a VarInt from *)
(* the same bytes, with the same value and the same bytes after it; where  *)
(* the loop panics (five continuation bytes) or runs out of bytes,         *)
(* mc_deserialize fails.  So a frame's outer length and its data length    *)
(* cannot be read differently.                                             *)
(***************************************************************************)
AgreesWithDeserialize ==
  LET d == VarIntDeserialize(input)
  IN /\ outcome = "done" =>
          d.ok /\ d.value = value /\ d.rest = SubSeq(input, position + 1, Len(input))
     /\ outcome \in {"panic", "none"} => ~d.ok

=============================================================================
