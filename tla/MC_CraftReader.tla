--------------------------- MODULE MC_CraftReader ---------------------------
(***************************************************************************)
(* Model-checking instance of CraftReader.  Bytes have 2-bit septets, so   *)
(* ids and lengths of 4 and more take two VarInt bytes, and max packet     *)
(* size is small enough for frames to reach it.                            *)
(***************************************************************************)
EXTENDS CraftReader

\* Login packets of the handshake and two plain packets; id 5 and the
\* compressed frame of its packet need two-byte VarInts.
MCPackets ==
  { [id |-> EncryptId, body |-> <<>>],
    [id |-> CompressId, body |-> <<>>],
    [id |-> PlayId, body |-> <<>>],
    [id |-> 0, body |-> <<>>],
    [id |-> 5, body |-> <<6>>] }

\* The packets around the malformed frames: the switch to compression and
\* one plain packet.
MCMalformedPackets ==
  { [id |-> CompressId, body |-> <<>>], [id |-> 0, body |-> <<>>] }

\* Two plain packets, read while the caller lowers max_packet_size from 8
\* to 6 and raises it again: id 0's frame announces 7 bytes, over the
\* lowered limit; id 5's announces 5, under both.
MCReconfigPackets ==
  { [id |-> 0, body |-> <<6, 6, 6, 6, 6, 6>>],
    [id |-> 5, body |-> <<6, 6, 6>>] }

\* The packet enum the typed reads decode into: id 5 in Login; id 0 has no
\* variant, so read_raw_packet and read_packet reject it.
MCReconfigKnownIds == { [state |-> InitialState, id |-> 5] }

\* A body id 5's deserializer rejects: read_packet fails where
\* read_raw_packet succeeds.
MCReconfigMalformed == { <<6, 6, 6>> }

\* A length prefix of five continuation bytes (spec.md 4.3, 8.6).
MCOverlongFrames ==
  { [bytes |-> <<4, 4, 4, 4, 4>>, compressed |-> FALSE,
     expect |-> ErrorResult("PacketHeaderErr"), consumes |-> 5] }

\* A zlib stream that inflates to fewer bytes than its data length (2):
\* spec.md 4.4 says the stream produces data_length bytes, and 7 makes a
\* failed decompression a DecompressFailed.
MCShortInflateFrames ==
  { [bytes |-> <<3, 2, ZlibHeader, 0>>, compressed |-> TRUE,
     expect |-> ErrorResult("DecompressFailed"), consumes |-> 4] }

\* Malformed frames and what they read as (spec.md 4.4, 7), each in the
\* compression mode it is written for.
MCCraftedFrames ==
  { \* an empty frame: no id VarInt
    [bytes |-> <<0>>, compressed |-> FALSE,
     expect |-> ErrorResult("PacketHeaderErr"), consumes |-> 1],
    \* an id VarInt cut off by the end of the frame
    [bytes |-> <<1, 5>>, compressed |-> FALSE,
     expect |-> ErrorResult("PacketHeaderErr"), consumes |-> 2],
    \* exactly max_packet_size bytes: accepted
    [bytes |-> <<6, 1, 0, 6, 6, 6, 6, 6>>, compressed |-> FALSE,
     expect |-> PacketResult([id |-> 0, state |-> InitialState,
                              direction |-> Direction], <<6, 6, 6, 6, 6>>),
     consumes |-> 8],
    \* one byte over max_packet_size: rejected after the length prefix
    [bytes |-> <<7, 1, 0, 0, 0, 0, 0, 0, 0>>, compressed |-> FALSE,
     expect |-> TooLarge(7), consumes |-> 2],
    \* data length equal to max_packet_size
    [bytes |-> <<3, 6, 1, ZlibHeader>>, compressed |-> TRUE,
     expect |-> TooLarge(6), consumes |-> 4],
    \* a zlib stream longer than its data length
    [bytes |-> <<4, 1, 1, ZlibHeader, 0, 0>>, compressed |-> TRUE,
     expect |-> ErrorResult("DecompressFailed"), consumes |-> 6],
    \* a body that is not a zlib stream
    [bytes |-> <<2, 1, 0>>, compressed |-> TRUE,
     expect |-> ErrorResult("DecompressFailed"), consumes |-> 3],
    \* a five-byte length that wraps to a negative i32 (spec.md 4.3)
    [bytes |-> <<4, 4, 4, 4, 3>>, compressed |-> FALSE,
     expect |-> TooLarge(AsUsize(-256)), consumes |-> 5],
    \* a five-byte data length that wraps to a negative i32
    [bytes |-> <<6, 1, 4, 4, 4, 4, 3, 0>>, compressed |-> TRUE,
     expect |-> TooLarge(AsUsize(-256)), consumes |-> 8] }
  \cup MCOverlongFrames

=============================================================================
