----------------------------- MODULE CraftWire -----------------------------
(***************************************************************************)
(* The Minecraft wire format the framing core speaks: VarInt length        *)
(* prefixes, the optional data-length/zlib layer, and the frame a writer   *)
(* puts on the wire for one packet (spec.md sections 4.3, 4.4, 4.6, 6).    *)
(*                                                                         *)
(* Bytes are scaled down: a VarInt byte carries SeptetBits payload bits    *)
(* below its continuation bit (7 and 0x80 in the code), and the decoded    *)
(* value wraps at VarIntBits bits (i32 in the code).  Everything else --   *)
(* the five-byte limit, the truncation of the last septet, the sign, the   *)
(* `as usize` cast -- is kept.                                             *)
(***************************************************************************)
EXTENDS Integers, Sequences

CONSTANTS
  SeptetBits,   \* payload bits of one VarInt byte (7 in the code)
  VarIntBits,   \* width of a decoded VarInt (32: i32 in the code)
  UsizeBits,    \* width of usize (64 in the code)
  ZlibHeader    \* first byte of every zlib stream (CMF, 0x78 in practice)

ASSUME SeptetBits \in 1..7
ASSUME VarIntBits \in (4 * SeptetBits + 1)..(5 * SeptetBits - 1)
ASSUME UsizeBits > VarIntBits

\* 0x80: the continuation bit.  A byte is below 2 * Base.
Base == 2 ^ SeptetBits
Bytes == 0 .. (2 * Base - 1)
ASSUME ZlibHeader \in 0 .. (Base - 1)

\* A VarInt is at most five bytes long (mcproto VarInt, read_packet_len_*).
VarIntMaxBytes == 5

\* Reinterpret an integer as a wrapping signed VarIntBits-bit value.
I32(x) ==
  LET m == x % (2 ^ VarIntBits)
  IN IF m >= 2 ^ (VarIntBits - 1) THEN m - 2 ^ VarIntBits ELSE m

\* `value as usize`: a negative i32 sign-extends to a huge usize.
AsUsize(x) == IF x < 0 THEN x + 2 ^ UsizeBits ELSE x

\* Variant: the continuation bit is not masked off (no `& 0x7F`).
SeptetAtUnmasked(value, byte, position) ==
  I32(value + byte * 2 ^ (position * SeptetBits))

\* value |= ((byte & 0x7F) as i32) << (position * 7), with i32 wrap-around.
\* The septets never overlap, so the OR is an addition modulo 2^VarIntBits.
SeptetAt(value, byte, position) ==
  I32(value + (byte % Base) * 2 ^ (position * SeptetBits))

HasMore(byte) == byte >= Base

\* Variant: a fifth continuation byte is let through and a sixth is read.
LenLoopStepSixBytes(value, byte, position) ==
  [value |-> SeptetAt(value, byte, position),
   next  |-> IF ~HasMore(byte) THEN "done"
             ELSE IF position + 1 > VarIntMaxBytes THEN "panic" ELSE "more"]

\* One iteration of the loop of read_packet_len_sync on a decrypted byte:
\* fold its septet in at `position`, then stop at a byte without the
\* continuation bit, or panic once five bytes have been read.
LenLoopStep(value, byte, position) ==
  [value |-> SeptetAt(value, byte, position),
   next  |-> IF ~HasMore(byte) THEN "done"
             ELSE IF position + 1 >= VarIntMaxBytes THEN "panic" ELSE "more"]

(***************************************************************************)
(* VarInt serialisation (mcproto-rs, outside this repository): the         *)
(* little-endian septets of a non-negative value.                          *)
(***************************************************************************)
RECURSIVE VarIntBytes(_)
VarIntBytes(v) ==
  IF v < Base THEN <<v>>
  ELSE <<(v % Base) + Base>> \o VarIntBytes(v \div Base)

\* VarInt::mc_serialize of any i32: the septets of `value as u32`, so a
\* negative value takes all five bytes.
VarIntEncode(v) == VarIntBytes(IF v < 0 THEN v + 2 ^ VarIntBits ELSE v)

(***************************************************************************)
(* VarInt::mc_deserialize (mcproto-rs): decode a VarInt from the front of  *)
(* a slice.  Fails when the slice ends before the last byte or when a      *)
(* fifth byte still has its continuation bit set.                          *)
(***************************************************************************)
DeserializeFailed == [ok |-> FALSE, value |-> 0, rest |-> <<>>]

VarIntDeserialize(s) ==
  LET RECURSIVE Go(_, _)
      Go(i, v) ==
        IF i = VarIntMaxBytes \/ i >= Len(s) THEN DeserializeFailed
        ELSE LET b == s[i + 1]
                 w == SeptetAt(v, b, i)
             IN IF HasMore(b) THEN Go(i + 1, w)
                ELSE [ok |-> TRUE, value |-> w, rest |-> SubSeq(s, i + 2, Len(s))]
  IN Go(0, 0)

(***************************************************************************)
(* zlib.  The model keeps what the reader can tell apart: a stream starts  *)
(* with its header byte and inflates to the bytes that follow (a stored    *)
(* deflate block); anything else is not a zlib stream.                     *)
(***************************************************************************)
Zlib(s) == <<ZlibHeader>> \o s

(***************************************************************************)
(* The frame a writer produces for one packet (spec.md 4.6): id VarInt and *)
(* body; with a threshold {t}, a data-length VarInt and, at or above t,    *)
(* the zlib stream of the inner bytes; then the outer length prefix.  A    *)
(* threshold is an Option: {} is None, {t} is Some(t).                     *)
(***************************************************************************)
PacketBytes(id, body) == VarIntBytes(id) \o body

FramePayload(inner, threshold) ==
  IF threshold = {} THEN inner
  ELSE IF \E t \in threshold : Len(inner) >= t
       THEN VarIntBytes(Len(inner)) \o Zlib(inner)
       ELSE <<0>> \o inner

Frame(id, body, threshold) ==
  LET payload == FramePayload(PacketBytes(id, body), threshold)
  IN VarIntBytes(Len(payload)) \o payload

=============================================================================
