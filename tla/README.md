# TLA+ model of the craftio-rs framing core

This directory holds TLA+ specifications of the packet reader of craftio-rs
(`src/src/reader.rs`, `src/src/cfb8.rs`), the TLC configurations that check
them, and `PROJECT.json`, which records the components, the runs, the mapping
from every TLA+ definition to the source lines it models, the findings and the
hazards.

## 1. The system

The repository contains three files: `lib.rs` (module declarations),
`reader.rs` (`CraftReader<R>`, sync and async) and `cfb8.rs` (`CraftCipher`,
AES-128/CFB8). The writer, connection, TCP glue, wrapper traits and
`util::get_sized_buf`, which `lib.rs` declares, are not in the repository.
`spec.md` describes them.

| Part | Source | State | Operations |
|---|---|---|---|
| Framed reader | reader.rs | `raw_buf`, `raw_ready`, `raw_offset`, `compression_threshold`, `state`, `encryption`, `max_packet_size`, `decompress_buf` | `read_raw_untyped_packet` (also via `read_packet`, `read_raw_packet`), `set_state`, `set_compression_threshold`, `enable_encryption`, `set_max_packet_size`, `ensure_buf_capacity`, `ensure_compression_buf_capacity` |
| Async reader | reader.rs 383-486 | same | the same read, with suspension at each `read_exact` |
| CFB8 cipher | cfb8.rs | the AES key and the 16-byte shift register | `new` (size checks), `decrypt`, `encrypt`, `setup_craft_cipher` (refuses a second install) |
| VarInt codec | reader.rs 324-351, mcproto_rs | none | length loop, `VarInt::mc_deserialize` |
| Compression | reader.rs 578-596, 661-680 | `decompress_buf` | data-length branch, `decompress` |
| Writer, connection, transport | not in the repository | | spec.md 4.6, 4.7, 6 |

How the parts interact: one read call runs these steps in order:
1. Compact the buffer.
2. Take the length VarInt byte by byte from the transport (`read_exact(1)` for each byte), decrypting each byte in a copy.
3. Check the length against `max_packet_size`.
4. Take the rest of the frame (`read_exact(len)`).
5. Decrypt the frame in place.
6. Parse the data length if a threshold is set, and decompress if needed.
7. Parse the id and tag it with the current state.

The caller switches compression, encryption and state between calls, right
after the packet that announces the switch (spec.md 9).

**What is hard.**
- **EOF handling.** `read_exact` may fail with `UnexpectedEof` at any of the
  transport reads in steps 2 and 4. The call then returns `None`, but the
  bytes already taken are gone.
- **Exactly-once decryption.** CFB8 is chained byte by byte across frames.
  Every wire byte must pass through the decryptor exactly once, and in order.
- **Switch timing.** Compression, encryption and protocol state must switch
  exactly between two frames.
- **Numeric edges.** Lengths wrap at i32, are then cast to usize, and are
  compared with `>` for the outer length but `>=` for the data length.
- **Overlong VarInt.** A fifth continuation byte makes the reader panic.

## 2. Modules

- **`CraftWire.tla`** defines the wire format as pure operators:
  - the scaled VarInt byte and the i32 wrap-around `I32`;
  - `AsUsize`, `SeptetAt` and `HasMore`, translated from the length loop;
  - `LenLoopStep`, one iteration of the loop of `read_packet_len_sync`:
    fold the septet in, stop at a byte without the continuation bit, panic
    after the fifth byte;
  - the mcproto VarInt codec `VarIntBytes` / `VarIntEncode` (any i32) /
    `VarIntDeserialize`;
  - the writer's frame encoding `Frame` (spec.md 4.6), which is spec-modelled.

  Bytes are scaled so that TLC can enumerate them:
  - A byte carries `SeptetBits` = 2 payload bits under its continuation bit, so bytes are 0..7 and a byte of 4 or more continues.
  - A VarInt wraps at `VarIntBits` = 9 bits (i32 in the code).
  - usize wraps at `UsizeBits` = 12 bits.

  The five-byte limit, truncation and sign behave the same as with the real widths.
- **`CraftReader.tla`** models one reader, the caller that drives it, the peer that writes frames, and the byte source. Variables:
  - the reader fields;
  - the locals of the read call in progress (`pc`, `position`, `value`, `packet_len`, and `api`, the method called, cleared when the call returns);
  - the source (`wire`, `avail`, `consumed`, `closed`);
  - the peer (`sent`, its own threshold, state and the wire position `encFrom` from which it encrypts);
  - the caller (`pending` switch, `cipherResult`, the log `results` of what each call returned and of the frame it decoded, with the `max_packet_size` in force).

  `decompress_buf` is kept as its length: `decompress` returns the inflated
  bytes directly, and only how far the buffer grows matters.

  A read call is split at its `read_exact` calls:

  | Action | Code |
  |---|---|
  | `ReadStart` | `read_raw_inner` (or `read_raw_inner_async`) up to the loop: `move_ready_data_to_front`; which method is called (`Apis`): `read_raw_untyped_packet`, `read_raw_packet`, `read_packet` of `CraftSyncReader`, or their `_async` counterparts of `CraftAsyncReader` |
  | `ReadLenByte` / `ReadLenByteEof` | one iteration of `read_packet_len_sync` with `read_byte_sync`, including the size check after the last byte and the panic |
  | `ReadBody` / `ReadBodyEof` | `ensure_n_ready_sync` followed by all of `read_untyped_packet_in_buf` (`decompress` grows `decompress_buf`), then `P::create` in `read_packet_in_buf` and `deserialize_raw_packet` for the typed methods (`SyncReadResult`, `AsyncReadResult`, `ReadPacket`) |
  | `CallerSwitch`, `CallerEnableEncryption`, `CallerEnsureBufCapacity`, `CallerEnsureCompressionBufCapacity`, `CallerSetMaxPacketSize` | `set_compression_threshold` / `set_state`, `enable_encryption` (also repeated, and with malformed sizes), `ensure_buf_capacity`, `ensure_compression_buf_capacity`, `set_max_packet_size` (to a size in `MaxSizes`, all above 5 as its `debug_assert!` requires) |
  | `PeerSend`, `PeerSendCrafted`, `Deliver`, `Close` | the environment: whole frames (well-formed or malformed) appended to the wire, one byte made available, end of input |

  Buffer bytes are records:
  - `Raw(i)` is the byte at wire position `i`.
  - `Plain(v)` is a value the reader wrote (zero fill or decrypted).

  The CFB8 decryptor is its shift register: the wire positions of the last 16
  ciphertext bytes it was fed. A byte decrypts to what the peer sent iff the
  register equals `CorrectRegister(i)`, the register of the peer's encryptor
  at that byte. Otherwise the byte decrypts to a value chosen from
  `GarbageBytes`. AES itself is not modelled.

  zlib is abstracted to a header byte followed by the stored bytes.

  `P::create` and `P::Packet`'s deserializer belong to mcproto_rs. They are
  abstracted to two constants: `KnownIds`, the [state, id] pairs the packet
  enum has a variant for, and `MalformedBodies`, the bodies its deserializer
  rejects.

  `CancelRead` is the async read (`read_byte` / `ensure_n_ready_async`)
  dropped while suspended in `read_exact`, for example by a timeout around
  `read_packet_async`. The constant `Cancellable` says where this may happen:
  at the first length byte of a frame, at a later one, or in the body. The
  future never reaches `self.raw_ready = ...`, and the bytes `read_exact`
  took are left uncounted and undecrypted. Only a call of an async method
  can be dropped; a sync call blocks in `read_exact` until it returns.
- **`PacketChannel.tla`** is the abstract specification of what the reader
  promises: an in-order channel of packets (`queue`, `received`) with
  `Send`, `Receive` and `Cut`. `Cut` is a closed connection losing the
  packets it had not carried. `Receive` is weakly fair. `CraftReader`
  instantiates it with this refinement mapping:
  - `queue` is the frames the peer has written in full that no read has answered yet;
  - `received` is the results of the read calls.

  The handshake run checks `ImplementsPacketChannel == Channel!Spec`.
- **`CraftCipher.tla`** models `CraftCipher::encrypt` and `decrypt` at the
  byte level. Each byte is XORed with the first byte of AES_k(register), and
  the ciphertext byte is shifted into the register, which starts as the iv.
  AES is a fixed stand-in function of the register (`BlockCipher`).
  - `Write` is a writer encrypting a frame in place.
  - `Read` is `handle_decryption` on the next slice of 1 to 3 bytes.

  This is the model CraftReader's register-of-wire-positions abstraction is
  checked against.
- **`CraftVarInt.tla`** runs the length loop alone: one call of
  `read_packet_len_sync` fed a byte string, one `read_byte_sync` per
  iteration (`LenByte`, through `LenLoopStep`), with `LenByteEof` when the
  string runs out. The reader decodes VarInts with two pieces of code: the
  outer length with this loop, and the data length and the id with mcproto's
  `VarInt::mc_deserialize`. This module compares the loop with the encoder
  and with that other decoder. `MC_CraftVarInt.tla` feeds it every byte
  string of up to five bytes, and five continuation bytes followed by any
  sixth.
- **`MC_CraftReader.tla`** defines the packet sets and the crafted malformed
  frames used by the configurations.

## 3. Runs

| Run | Config | Expect | Checks |
|---|---|---|---|
| handshake | MC_handshake.cfg | pass (119,325 states, ~65 s) | TypeOK, ReadsWhatWasSent, EachByteDecryptedOnce, ImplementsPacketChannel |
| malformed | MC_malformed.cfg | pass (2.2M states, ~90 s) | ReadsWhatWasSent, BufferBounded |
| reconfigure | MC_reconfig.cfg | pass (2.2M states, ~75 s) | ReadsUnderCurrentMax |
| cipher_round_trip | MC_cipher.cfg (MC_CraftCipher) | pass (1,593 states, ~2 s) | TypeOK, RoundTrip, RegisterIsCiphertext |
| varint_codec | MC_varint.cfg (MC_CraftVarInt) | pass (159,110 states, ~3 s) | LengthRoundTrip, AgreesWithDeserialize |
| resume_after_eof | MC_resume.cfg | violation | ReadsWhatWasSent |
| overlong_length | MC_overlong.cfg | violation | NeverPanics |
| cancel_mid_frame | MC_cancel.cfg | violation | ReadsWhatWasSent |
| short_inflate | MC_short_inflate.cfg | violation | ReadsWhatWasSent |

- **ReadsWhatWasSent.** Each call that returns a packet or an error returns
  what the peer put in the next frame: id, body, protocol state, or the
  spec's error for a malformed frame. It takes exactly that frame off the
  transport. `read_raw_packet` and `read_packet` return that packet or a
  `PacketErr`, when its Id is unknown in the state it was sent in or, for
  `read_packet`, when its body is rejected. Either way the call still takes
  exactly the frame. An error on the outer length takes only the length
  prefix (spec.md 8.7). Nothing is claimed after that error, because the
  stream is then misaligned by design.
- **ReadsUnderCurrentMax.** `set_max_packet_size` between reads governs
  the next read. A frame whose length is over the limit in force at the
  call is a `PacketTooLarge` of that length, and it takes only the length
  prefix. A frame within that limit is read whole, as sent. This holds even
  when the peer wrote the frame while the limit was larger, and even when
  the limit was lowered and then raised again. Its mutant checks the frame
  against the limit the reader was built with.
- **EachByteDecryptedOnce.** Between calls, the decryptor's register is the
  peer's register at the next wire byte (spec.md 8.1, 9).
- **ImplementsPacketChannel.** The reader refines `PacketChannel`:
  - each step returns the oldest fully written packet, or nothing;
  - `Close` only drops packets that were not carried;
  - a packet that has arrived is eventually returned.

  This holds whatever chunks the packet arrived in, and whatever earlier calls
  returned `None` or were cancelled while waiting for the first byte.
- **BufferBounded.** `raw_buf` never grows past the largest
  `max_packet_size` plus the five bytes of a length prefix, and
  `decompress_buf` never grows past the largest `max_packet_size`. This holds
  whatever length or data length a frame announces (including a wrapped
  negative i32) and whatever capacity a caller passes to
  `ensure_buf_capacity` or `ensure_compression_buf_capacity`. `decompress`
  sizes its buffer before it inflates, so even a frame that then fails to
  inflate allocates; only the `>=` check on the data length bounds that.
- **RoundTrip.** Whatever slices the decryptor is fed, it returns what the
  encryptor was given, in order (spec.md 4.2, 8.5).
- **RegisterIsCiphertext.** The decryptor's register is always the iv
  followed by the ciphertext it was fed, and the encryptor's is that of the
  whole wire. CraftReader represents the register as wire positions and
  `CorrectRegister`, and this is the property that justifies it.
- **LengthRoundTrip.** Fed the bytes `VarInt::mc_serialize` writes for any
  i32, including the five-byte negative ones, the length loop never panics.
  It returns that value having read exactly those bytes (spec.md 4.3).
- **AgreesWithDeserialize.** The loop returns a length exactly when
  `mc_deserialize` decodes a VarInt from the same bytes, and both give the
  same value and leave the same bytes. Where the loop panics or runs out of
  bytes, `mc_deserialize` fails. So a frame's outer length and its data
  length cannot be read two ways.
- **NeverPanics.** The reader never panics on its input (spec.md 7, 8.6).

**handshake.** The peer sends up to 3 frames from these packets: the
encryption request, Set Compression, Login Success (switch to Play), and two
plain packets. One plain packet needs two-byte VarInts, and its frame is
compressed above threshold 2. The settings:
- `MaxPacketSize` = 8.
- Key and iv sizes {16, 15}, so every `enable_encryption` outcome occurs.
- `ensure_buf_capacity(9)`, which is above the max.

Bytes arrive one at a time and the connection may close at any point. The
caller uses `read_raw_untyped_packet_async`, and a read may be cancelled
while it waits for the first byte of a frame (`Cancellable = {"len_first"}`).
This is the pattern of a caller that puts a timeout around
`read_packet_async` and retries.

**malformed.** The peer sends malformed frames in the compression mode they
are written for, before and after Set Compression:
- an empty frame;
- an id cut off by the end of the frame;
- exactly max (6) bytes, and max + 1 bytes;
- a data length equal to max;
- a zlib stream that does not fit;
- a body that is not zlib;
- a 5-byte outer length and a 5-byte data length that wrap to -256.

**reconfigure.** The reader starts with `max_packet_size` = 8. Between
reads the caller sets it to 6 or back to 8, and asks both
`ensure_*_capacity` methods for 14. The peer writes up to 2 plain frames.
Id 0's frame announces 7 bytes: it is over the lowered limit and within the
initial one. Id 5's frame announces 5 bytes, within both limits. Every read
may be `read_raw_packet` or `read_packet`, sync or async
(`read_raw_untyped_packet` is exercised by the other runs). In `KnownIds`,
only id 5 has a variant, and id 5's body `<<6, 6, 6>>` is rejected by its
deserializer. So every read of a frame within the limit fails with
`PacketErr`, except a `read_raw_packet` of id 5, and the next read must
still find its frame. After a `PacketTooLarge` the reader takes body bytes
as a length prefix and may panic, so deadlock is not checked. There is no
compression in this run, which keeps byte-wise delivery of 9-byte frames
within reach.

**cipher_round_trip.** 2-bit bytes and a 2-byte register, so one frame
overwrites the whole register and a slice can be longer than it. Frames are
every byte string of 1 to 3 bytes, up to 4 bytes in all, and decrypt slices
are 1 to 3 bytes. Once everything written has been decrypted nothing is left
to do, so deadlock is not checked.

**varint_codec.** The widths of the reader runs: 2-bit septets and a 9-bit
i32. That makes all 512 i32 values, and every byte string the loop can
meet, enumerable. That includes the strings that wrap into the sign bit, the
truncated ones and the overlong ones. Each behaviour is one call of the loop,
which stops when it returns or panics, so deadlock is not checked.

**resume_after_eof.** The handshake configuration with `EofIsFinal = FALSE`:
a source that reports end of input whenever it is drained, for example a
non-blocking socket wrapped in `read_exact`.

**overlong_length.** Frames whose length prefix is five continuation bytes.

**cancel_mid_frame.** The handshake run, with cancellation allowed at
every `read_exact` await.

**short_inflate.** A compressed frame whose zlib stream inflates to fewer
bytes than its data length.

The bounds are enough to reach every case:
- 3 frames are enough to encrypt, compress and switch state, and then read a
  frame under all three.
- 2-bit septets make two-byte VarInts and 5-byte overflow reachable with
  small values.
- A max of 6 or 8 lets frames reach it, and the reconfigure run's 7-byte
  frame lies between the two limits.
- Byte-wise delivery and `Close` at any point put EOF at every step of a read.

Every action and every disjunct of `Next` fires in one of the passing runs. Each property of a passing run has a mutant in `PROJECT.json`: a
plausible bug in a mapped definition that TLC catches.

## 4. Fairness

The caller loops on read calls, so these actions are weakly fair:
- `ReadStart` and the continuation of a call in progress;
- the switch the caller owes after a trigger packet;
- the correct `enable_encryption`;
- delivery of written bytes, so that a transport carries what was written.

The peer may stop or close at any time, and a cancellation is never forced.
This is why the liveness half of `ImplementsPacketChannel` (`WF` on
`Receive`) speaks only of packets in the channel's queue. Those are frames
the peer has written in full, and `Close` may still drop them before they are
carried (`Cut`).

## 5. Findings

1. **`resume_after_eof`.** `ensure_n_ready_sync` (reader.rs 373) returns
   `None` on `UnexpectedEof` after the length prefix was consumed. The bytes
   `read_exact` took are lost too. The next call reads a body byte as a
   length. spec.md 4.5 and 8.8/S5 say partial progress is kept. The same holds
   mid-VarInt (reader.rs 358). With a blocking source (`EofIsFinal = TRUE`),
   EOF is final and this cannot matter.
2. **`overlong_length`.** A fifth continuation byte panics (reader.rs 347-348)
   instead of returning `PacketHeaderErr` (spec.md 7, 8.6). spec.md 9 lists
   this as an open question.

3. **`cancel_mid_frame`.** An async read dropped while `ensure_n_ready_async`
   awaits the body (reader.rs 477) has already consumed the length prefix.
   The next read takes a body byte as a length. spec.md 5 asks that a read
   cancelled mid-packet resume cleanly, though it also tells callers to treat
   mid-call cancellation as fatal. Cancellation while waiting for the first
   byte of a frame is harmless: the handshake run checks this.
4. **`short_inflate`.** `decompress` returns `decompress_buf[..total_out]`
   (reader.rs 678) without comparing `total_out` with `data_len`. A stream
   shorter than announced is accepted as the packet. spec.md 4.4 says the
   stream produces `data_length` bytes, and §7 says a failed decompression
   is `DecompressFailed`.

## 6. What is not modelled, and why

Modelled:
- every operation of the reader, sync and async: the six read methods, the
  CraftIo setters, both capacity reservations, and a dropped async call;
- the cipher install and the byte-level CFB8 cipher;
- the VarInt length loop, on its own and inside the reader;
- compression, state switching and the malformed frames.

Not modelled:
- **AES and zlib's bitstream.** AES is a fixed stand-in function of the
  register. A zlib stream is a header byte followed by its inflated bytes.
- **The `Status::Ok` branch of `decompress`'s loop (reader.rs 672).** That
  branch would call flate2 again with the whole input. `decompress` builds a
  fresh `Decompress` and makes its first call with `FlushDecompress::Finish`.
  A first call with `Finish` ends in `StreamEnd`, `BufError` or an error; it
  does not return `Ok`. This is zlib's `Z_FINISH` contract, which
  miniz_oxide follows for a first call. So the loop runs once, and
  `Decompress` models that one call.
- **Real widths.** TLC's integers are 32-bit, so a 32-bit i32 wrap and a
  64-bit usize cannot be computed. The runs use 2-bit septets, a 9-bit i32
  and a 12-bit usize instead. The five-byte limit, the wrap into the sign
  bit, the truncation of the last septet and the `as usize` cast all keep
  the same shape at these widths.
- **Buffer capacity doubling (spec.md 4.1).** Nothing can observe it.
- **The contents of `decompress_buf`.** Only its length is kept.
- **What `P::create` builds and what `deserialize` returns.** Only
  acceptance or rejection is kept.
- **The async methods' own lines.** `read_raw_inner_async`,
  `read_packet_len_async`, `read_byte` and `ensure_n_ready_async` repeat the
  sync control flow, and the same actions stand for them. What is specific to
  them is that a call can be dropped (`CancelRead`). The `AsyncReadExact`
  impls only forward to futures or tokio.
- **The writer, the connection, the TCP glue and the wrapper traits
  (writer.rs, connection.rs, tcp.rs, wrapper.rs).** `lib.rs` declares them,
  but their source is not in the repository. A module for them could only
  restate spec.md 4.6 and 4.7. The reader model's peer already writes frames
  as spec.md 4.6 describes (`Frame`). Which bytes reach the reader is the
  only part of the writer the reader depends on, and the reader runs check
  every such byte stream. `connection.rs` pairs a reader with a writer, and
  their state is disjoint (spec.md 5). Without its source there is no
  pairing code whose atomicity could be checked.
- **`read_exact` errors other than `UnexpectedEof`.** These go through the
  `Err` branch of `check_unexpected_eof` (reader.rs 224). Such an error
  returns `Err` where `UnexpectedEof` returns `Ok(None)`. The bytes
  `read_exact` took are lost in the same way. `ReadLenByteEof` and
  `ReadBodyEof` already cover what this does to the reader's state. The
  only difference is the value the caller receives.
- **`lib.rs`.** It holds only module declarations and re-exports.
