---------------------------- MODULE CraftReader ----------------------------
(***************************************************************************)
(* CraftReader<R> of src/reader.rs reading from a byte source that a peer  *)
(* fills with frames, one transport read at a time.                        *)
(*                                                                         *)
(* One read call (read_raw_untyped_packet) is three kinds of step, split   *)
(* where the code calls read_exact on the transport:                       *)
(*   ReadStart    move_ready_data_to_front, enter read_packet_len_sync;    *)
(*   ReadLenByte  one iteration of the VarInt loop (read_byte_sync,        *)
(*                decryption of the byte, the size check at the end);      *)
(*   ReadBody     ensure_n_ready_sync, then read_untyped_packet_in_buf     *)
(*                (decrypt in place, data length, decompress, id).         *)
(* The peer appends whole frames (encoded as a CraftWriter would, spec.md  *)
(* 4.6), switches compression, encryption and protocol state after the     *)
(* packets that trigger them, and may close the connection at any point;   *)
(* the transport delivers the frames byte by byte.  The caller loops on    *)
(* read calls and applies the switches after the triggering packet, as a   *)
(* Minecraft client does.                                                  *)
(***************************************************************************)
EXTENDS CraftWire, SequencesExt

CONSTANTS
  MaxPacketSize,    \* DEAFULT_MAX_PACKET_SIZE, also the peer writer's limit
  MaxSizes,         \* sizes a caller may pass to set_max_packet_size
  CipherBlockBytes, \* AES block size = length of the CFB8 shift register
  KeySize,          \* BYTES_SIZE: the only key / iv length CraftCipher::new accepts
  KeySizes,         \* key and iv lengths a caller may pass to enable_encryption
  Direction,        \* the reader's PacketDirection
  InitialState,     \* State::Handshaking
  PlayState,        \* State::Play
  Threshold,        \* the compression threshold the peer announces
  EncryptId,        \* id of the packet after which the peer encrypts
  CompressId,       \* id of the packet after which the peer compresses
  PlayId,           \* id of the packet after which both sides are in Play
  Packets,          \* packets the peer may send: [id, body]
  CraftedFrames,    \* malformed frames: [bytes, compressed, expect, consumes]
  MaxFrames,        \* how many frames the peer sends at most
  BufCapacities,    \* capacities a caller may pass to ensure_buf_capacity
  CompressBufCapacities, \* ... and to ensure_compression_buf_capacity
  GarbageBytes,     \* what a byte decrypted with the wrong CFB8 state may read as
  EofIsFinal,       \* TRUE: read_exact waits for data, EOF only once closed
  Cancellable,      \* where an async read may be dropped while suspended:
                    \* "len_first", "len_rest" (a later length byte), "body"
  Apis,             \* read methods the caller uses: read_raw_untyped_packet
                    \* ("untyped"), read_raw_packet ("raw"), read_packet ("typed")
                    \* and their _async counterparts
  KnownIds,         \* [state, id] pairs P::create accepts for Direction
  MalformedBodies   \* bodies P::Packet's deserializer rejects

ASSUME MaxPacketSize > 5 /\ \A n \in MaxSizes : n > 5
ASSUME KeySize \in KeySizes /\ GarbageBytes \subseteq Bytes /\ GarbageBytes # {}
ASSUME EofIsFinal \in BOOLEAN
ASSUME Cancellable \subseteq {"len_first", "len_rest", "body"}
\* The methods of CraftSyncReader and of CraftAsyncReader.
SyncApis == {"untyped", "raw", "typed"}
AsyncApis == {"untyped_async", "raw_async", "typed_async"}

ASSUME Apis \subseteq SyncApis \cup AsyncApis /\ Apis # {}

VARIABLES
  \* fields of CraftReader
  raw_buf,                \* Option<Vec<u8>>: <<>> while None
  raw_ready, raw_offset,
  compression_threshold,  \* Option<i32>: {} is None, {t} is Some(t)
  state,
  encryption,             \* Option<CraftCipher>: <<>> or the CFB8 register
  max_packet_size,
  decompress_buf,         \* Option<Vec<u8>>: its length, 0 while None
  \* the read call in progress and its locals
  pc, position, value, packet_len, callStart,
  api,                    \* which CraftSyncReader method the call is
  \* the byte source
  wire, avail, consumed, closed,
  \* the peer
  sent, peerThreshold, peerState, encFrom,
  \* the caller
  pending, cipherResult, results

readerVars == <<raw_buf, raw_ready, raw_offset, compression_threshold, state,
                encryption, max_packet_size, decompress_buf>>
callVars == <<pc, position, value, packet_len, callStart, api>>
sourceVars == <<wire, avail, consumed, closed>>
peerVars == <<sent, peerThreshold, peerState, encFrom>>
callerVars == <<pending, cipherResult, results>>
vars == <<readerVars, callVars, sourceVars, peerVars, callerVars>>

(***************************************************************************)
(* Buffer entries.  A byte read from the transport is remembered as the    *)
(* wire position it came from, Raw(i); a byte written by the reader        *)
(* (zero fill, in-place decryption) as its value, Plain(v).                *)
(***************************************************************************)
Raw(i) == [wire |-> i]
Plain(v) == [val |-> v]
Entries == [wire : Nat] \cup [val : Bytes]

\* util::get_sized_buf(buf, start, len): grow to start + len, zero filled.
GetSizedBuf(buf, start, len) ==
  IF Len(buf) >= start + len THEN buf
  ELSE buf \o [k \in 1 .. (start + len - Len(buf)) |-> Plain(0)]

\* read_exact(target) filling buffer positions [at, at + n) from the
\* transport bytes after `from` (positions are 0-based, sequences 1-based).
Fill(buf, at, from, n) ==
  [k \in 1 .. Len(buf) |-> IF k > at /\ k <= at + n THEN Raw(from + k - at)
                           ELSE buf[k]]

(***************************************************************************)
(* CFB8.  The decryptor's state is its shift register: the last            *)
(* CipherBlockBytes ciphertext bytes it was fed, named by wire position;   *)
(* the IV bytes are -CipherBlockBytes..-1, anything that is not the        *)
(* ciphertext of a wire byte is Junk.  A byte decrypts to what the peer    *)
(* sent iff it is a ciphertext byte and the register holds the            *)
(* ciphertext bytes that precede it on the wire.                           *)
(***************************************************************************)
Junk == -(CipherBlockBytes + 1)
InitialRegister == [j \in 1 .. CipherBlockBytes |-> j - CipherBlockBytes - 1]
Encrypted(i) == encFrom > 0 /\ i >= encFrom

CorrectRegister(i) ==
  [j \in 1 .. CipherBlockBytes |->
     LET p == i - CipherBlockBytes + j - 1
     IN IF p >= encFrom THEN p ELSE p - encFrom]

ClearValues(e) ==
  IF "val" \in DOMAIN e THEN {e.val}
  ELSE IF Encrypted(e.wire) THEN GarbageBytes ELSE {wire[e.wire]}

\* Variant: a shift register that is appended to but never shifted.
DecryptByteUnshifted(reg, e) ==
  LET isCipher == "wire" \in DOMAIN e /\ Encrypted(e.wire)
  IN {[out |-> g, reg |-> Append(reg, IF isCipher THEN e.wire ELSE Junk)] : g \in GarbageBytes}

\* One byte through Decryptor<Aes128>::decrypt_block_mut.
DecryptByte(reg, e) ==
  LET isCipher == "wire" \in DOMAIN e /\ Encrypted(e.wire)
      next == Append(Tail(reg), IF isCipher THEN e.wire ELSE Junk)
  IN IF isCipher /\ reg = CorrectRegister(e.wire)
     THEN {[out |-> wire[e.wire], reg |-> next]}
     ELSE {[out |-> g, reg |-> next] : g \in GarbageBytes}

\* CraftCipher::decrypt: every byte of the slice in order.
RECURSIVE Decrypt(_, _)
Decrypt(reg, es) ==
  IF es = <<>> THEN {[out |-> <<>>, reg |-> reg]}
  ELSE UNION {{[out |-> <<d.out>> \o r.out, reg |-> r.reg] : r \in Decrypt(d.reg, Tail(es))}
               : d \in DecryptByte(reg, Head(es))}

RECURSIVE ClearBytes(_)
ClearBytes(es) ==
  IF es = <<>> THEN {<<>>}
  ELSE {<<v>> \o r : v \in ClearValues(Head(es)), r \in ClearBytes(Tail(es))}

\* handle_decryption(cipher, buf): decrypt in place when a cipher is installed.
HandleDecryption(cipher, es) ==
  IF cipher = <<>> THEN {[out |-> o, reg |-> <<>>] : o \in ClearBytes(es)}
  ELSE Decrypt(cipher, es)


(***************************************************************************)
(* What a read call returns, and the steps of read_untyped_packet_in_buf   *)
(* after the frame is in the buffer.                                       *)
(***************************************************************************)
PacketResult(id, body) == [kind |-> "packet", id |-> id, body |-> body]
ErrorResult(e) == [kind |-> "error", err |-> e, size |-> 0]
TooLarge(n) == [kind |-> "error", err |-> "PacketTooLarge", size |-> n]
ErrorNames == {"PacketTooLarge", "PacketHeaderErr", "DecompressFailed", "PacketErr"}

Ok(bytes) == [ok |-> TRUE, bytes |-> bytes, err |-> ErrorResult("none")]
Fail(res) == [ok |-> FALSE, bytes |-> <<>>, err |-> res]

\* Variant: the frame length is not checked against max_packet_size.
FrameTooLargeUnchecked(len) == FALSE

\* Variant: the frame length is checked against the max_packet_size the
\* reader was built with, not the one set_max_packet_size set last.
FrameTooLargeInitialMax(len) == len > MaxPacketSize

\* read_raw_inner: primary_packet_len > self.max_packet_size
FrameTooLarge(len) == len > max_packet_size

\* Variant: the data length is not checked against max_packet_size.
DataLenTooLargeUnchecked(len) == FALSE

\* Variant: a data length equal to max_packet_size is let through.
DataLenTooLargeStrict(len) == len > max_packet_size

\* read_untyped_packet_in_buf: data_len >= self.max_packet_size
DataLenTooLarge(len) == len >= max_packet_size

\* decompress(src, target, decompressed_len): the output buffer holds
\* decompressed_len bytes; a stream that does not fit stops with BufError,
\* one that is not zlib fails; both are DecompressFailed.
Decompress(src, cap) ==
  IF src # <<>> /\ src[1] = ZlibHeader /\ Len(src) - 1 <= cap
  THEN Ok(Tail(src))
  ELSE Fail(ErrorResult("DecompressFailed"))

\* Variant: a data length of 0 (a frame below the threshold) is inflated too.
PacketBufAlwaysInflate(bytes, threshold) ==
  LET d == VarIntDeserialize(bytes)
  IN IF threshold = {} THEN Ok(bytes)
     ELSE IF ~d.ok THEN Fail(ErrorResult("PacketHeaderErr"))
     ELSE IF DataLenTooLarge(AsUsize(d.value)) THEN Fail(TooLarge(AsUsize(d.value)))
     ELSE Decompress(d.rest, AsUsize(d.value))

\* The compression branch: data length, then the stored or inflated body.
PacketBuf(bytes, threshold) ==
  IF threshold = {} THEN Ok(bytes)
  ELSE LET d == VarIntDeserialize(bytes)
           data_len == AsUsize(d.value)
       IN IF ~d.ok THEN Fail(ErrorResult("PacketHeaderErr"))
          ELSE IF data_len = 0 THEN Ok(d.rest)
          ELSE IF DataLenTooLarge(data_len) THEN Fail(TooLarge(data_len))
          ELSE Decompress(d.rest, data_len)

\* How far the frame grows decompress_buf: decompress calls
\* get_sized_buf(target, 0, data_len) before it inflates anything.
DecompressLen(bytes, threshold) ==
  LET d == VarIntDeserialize(bytes)
      data_len == AsUsize(d.value)
  IN IF threshold = {} \/ ~d.ok \/ data_len = 0 \/ DataLenTooLarge(data_len) THEN 0
     ELSE data_len

\* The id VarInt and the Id tagged with the reader's current state.
UntypedPacket(bytes, threshold, st) ==
  LET p == PacketBuf(bytes, threshold)
      d == VarIntDeserialize(p.bytes)
  IN IF ~p.ok THEN p.err
     ELSE IF ~d.ok THEN ErrorResult("PacketHeaderErr")
     ELSE PacketResult([id |-> d.value, state |-> st, direction |-> Direction], d.rest)

\* move_ready_data_to_front: copy_within(offset..offset+ready, 0).
MoveReadyDataToFront(buf, offset, ready) ==
  IF ready > 0 /\ offset > 0
  THEN [k \in 1 .. Len(buf) |-> IF k <= ready THEN buf[offset + k] ELSE buf[k]]
  ELSE buf

\* Variant: the length byte is used as it came off the wire.
LenByteUndecrypted(cipher, entry) ==
  {[out |-> o, reg |-> cipher] : o \in ClearBytes(<<entry>>)}

\* The length byte is copied out (`&mut [..[0]]`) and decrypted in the copy.
LenByte(cipher, entry) == HandleDecryption(cipher, <<entry>>)

(***************************************************************************)
(* The byte source: read_exact(target) of n bytes.  It succeeds once n     *)
(* bytes are there; it fails with UnexpectedEof when fewer are there and   *)
(* none will come (EofIsFinal, a blocking stream) or at once (a source     *)
(* that reports end of input whenever it is drained), and then it has      *)
(* consumed the bytes it did find.                                         *)
(***************************************************************************)
\* Variant: read_exact that waits for one byte more than it needs.
AvailableOneShort(n) == avail - consumed > n

Available(n) == avail - consumed >= n
\* Variant: end of input reported although exactly n bytes are left.
ReadExactEofAtEnd(n) == avail - consumed <= n /\ (closed \/ ~EofIsFinal)

ReadExactEof(n) == avail - consumed < n /\ (closed \/ ~EofIsFinal)

\* The caller's reaction to a packet: the switch it triggers.
EffectOf(res) ==
  IF res.kind # "packet" THEN "none"
  ELSE CASE res.id.id = EncryptId -> "encrypt"
         [] res.id.id = CompressId -> "compress"
         [] res.id.id = PlayId     -> "play"
         [] OTHER                  -> "none"

\* A call's outcome: what it returned, and the untyped frame it decoded.
Log(frame, res, stage) ==
  results' = Append(results, [res |-> res, frame |-> frame, api |-> api, stage |-> stage,
                              start |-> callStart, end |-> consumed',
                              max |-> max_packet_size])

(***************************************************************************)
(* Configuration operations of CraftIo for CraftReader.                    *)
(***************************************************************************)
SetState(next) == state' = next

SetCompressionThreshold(threshold) == compression_threshold' = threshold

\* What enable_encryption returns: Ok(()) or a CipherError.
CipherResults == {"none", "Ok", "AlreadyEnabled", "BadSizeIv", "BadSizeKey"}

\* CraftCipher::new(key, iv, false): the iv is checked before the key.
CraftCipherNew(keyLen, ivLen) ==
  IF ivLen # KeySize THEN "BadSizeIv"
  ELSE IF keyLen # KeySize THEN "BadSizeKey"
  ELSE "Ok"

\* enable_encryption -> setup_craft_cipher: a second cipher is refused,
\* a new one is installed only when CraftCipher::new succeeds.
EnableEncryption(keyLen, ivLen) ==
  \/ /\ encryption # <<>>
     /\ cipherResult' = "AlreadyEnabled"
     /\ UNCHANGED encryption
  \/ /\ encryption = <<>>
     /\ cipherResult' = CraftCipherNew(keyLen, ivLen)
     /\ encryption' = IF cipherResult' = "Ok" THEN InitialRegister ELSE encryption

\* Variant: the capacity is not clamped to max_packet_size.
EnsureBufCapacityUnclamped(capacity) ==
  /\ raw_buf' = GetSizedBuf(MoveReadyDataToFront(raw_buf, raw_offset, raw_ready),
                            0, capacity)
  /\ raw_offset' = 0

\* ensure_buf_capacity: compact, then grow the buffer from position 0.
EnsureBufCapacity(capacity) ==
  LET alloc_to == IF capacity > max_packet_size THEN max_packet_size ELSE capacity
  IN /\ raw_buf' = GetSizedBuf(MoveReadyDataToFront(raw_buf, raw_offset, raw_ready),
                               0, alloc_to)
     /\ raw_offset' = 0

\* Variant: the capacity is not clamped to max_packet_size.
EnsureCompressionBufCapacityUnclamped(capacity) ==
  decompress_buf' = Max({decompress_buf, capacity})

\* ensure_compression_buf_capacity: grow decompress_buf, clamped.
EnsureCompressionBufCapacity(capacity) ==
  LET alloc_to == IF capacity > max_packet_size THEN max_packet_size ELSE capacity
  IN decompress_buf' = Max({decompress_buf, alloc_to})

\* set_max_packet_size (debug_assert!(max_size > 5): MaxSizes are above 5).
SetMaxPacketSize(max_size) == max_packet_size' = max_size

(***************************************************************************)
(* A read call.                                                            *)
(***************************************************************************)

\* The call returns; its locals are gone.
Return == pc' = "idle" /\ api' = "none"

\* Variant: P::create accepts any id.
CreateRawPacketUnchecked(frame) == frame

\* read_packet_in_buf: P::create(id, body_buf) on the untyped packet; an Id
\* the packet enum has no variant for is a PacketErr.
CreateRawPacket(frame) ==
  IF frame.kind = "packet" /\ [state |-> frame.id.state, id |-> frame.id.id] \notin KnownIds
  THEN ErrorResult("PacketErr") ELSE frame

\* deserialize_raw_packet: raw.deserialize(), a failure is a PacketErr.
DeserializeRawPacket(raw) ==
  IF raw.kind = "packet" /\ raw.body \in MalformedBodies
  THEN ErrorResult("PacketErr") ELSE raw

\* read_packet, the default method of both traits: deserialize_raw_packet
\* of the raw packet read_raw_packet returns.
ReadPacket(frame) == DeserializeRawPacket(CreateRawPacket(frame))

\* impl CraftSyncReader: read_raw_untyped_packet returns the frame,
\* read_raw_packet the raw packet (read_packet_in_buf).
SyncReadResult(frame, a) ==
  CASE a = "untyped" -> frame
    [] a = "raw"     -> CreateRawPacket(frame)
    [] a = "typed"   -> ReadPacket(frame)

\* impl CraftAsyncReader: the same over read_raw_inner_async.
AsyncReadResult(frame, a) ==
  CASE a = "untyped_async" -> frame
    [] a = "raw_async"     -> CreateRawPacket(frame)
    [] a = "typed_async"   -> ReadPacket(frame)

\* read_raw_inner: move_ready_data_to_front, then the VarInt loop.
ReadStart ==
  /\ pc = "idle" /\ pending = "none"
  /\ raw_buf' = MoveReadyDataToFront(raw_buf, raw_offset, raw_ready)
  /\ raw_offset' = 0
  /\ pc' = "len" /\ position' = 0 /\ value' = 0 /\ callStart' = consumed
  /\ \E a \in Apis : api' = a
  /\ UNCHANGED <<max_packet_size, decompress_buf, raw_ready, compression_threshold, state, encryption, packet_len,
                 sourceVars, peerVars, callerVars>>

\* read_byte_sync finds no byte: check_unexpected_eof returns Ok(None).
ReadLenByteEof ==
  /\ pc = "len" /\ raw_ready < 1 /\ ReadExactEof(1)
  /\ raw_buf' = GetSizedBuf(raw_buf, raw_offset, 1)
  /\ consumed' = avail
  /\ Return
  /\ UNCHANGED <<max_packet_size, decompress_buf, raw_ready, raw_offset, compression_threshold, state, encryption,
                 position, value, packet_len, callStart, wire, avail, closed,
                 peerVars, callerVars>>

\* One iteration of read_packet_len_sync: take a byte (from the buffer or
\* the transport), decrypt it, fold its septet in, consume it; stop at the
\* last byte (size check), panic at the fifth continuation byte.
ReadLenByte ==
  LET fresh == raw_ready < 1
      buf == IF fresh THEN Fill(GetSizedBuf(raw_buf, raw_offset, 1), raw_offset, consumed, 1)
             ELSE raw_buf
  IN /\ pc = "len" /\ (~fresh \/ Available(1))
     /\ consumed' = IF fresh THEN consumed + 1 ELSE consumed
     /\ raw_buf' = buf
     /\ raw_ready' = (IF fresh THEN 1 ELSE raw_ready) - 1
     /\ raw_offset' = raw_offset + 1
     /\ position' = position + 1
     /\ \E d \in LenByte(encryption, buf[raw_offset + 1]) :
          LET step == LenLoopStep(value, d.out[1], position)
              v == step.value
          IN /\ encryption' = d.reg
             /\ value' = v
             /\ \/ /\ step.next = "more"
                   /\ pc' = "len"
                   /\ UNCHANGED <<packet_len, api, callerVars>>
                \/ /\ step.next = "panic"
                   /\ pc' = "panicked"
                   /\ UNCHANGED <<packet_len, api, callerVars>>
                \/ /\ step.next = "done" /\ FrameTooLarge(AsUsize(v))
                   /\ Return
                   /\ Log(TooLarge(AsUsize(v)), TooLarge(AsUsize(v)), "len")
                   /\ UNCHANGED <<packet_len, pending, cipherResult>>
                \/ /\ step.next = "done" /\ ~FrameTooLarge(AsUsize(v))
                   /\ pc' = "body"
                   /\ packet_len' = AsUsize(v)
                   /\ UNCHANGED <<api, callerVars>>
     /\ UNCHANGED <<max_packet_size, decompress_buf, compression_threshold, state, callStart, wire, avail, closed,
                    peerVars>>

\* ensure_n_ready_sync(len) runs out of bytes: Ok(None), and the bytes
\* read_exact did find are gone from the transport.
ReadBodyEof ==
  LET at == raw_offset + raw_ready
      to_read == packet_len - raw_ready
  IN /\ pc = "body" /\ raw_ready < packet_len /\ ReadExactEof(to_read)
     /\ raw_buf' = Fill(GetSizedBuf(raw_buf, at, to_read), at, consumed, avail - consumed)
     /\ consumed' = avail
     /\ Return
     /\ UNCHANGED <<max_packet_size, decompress_buf, raw_ready, raw_offset, compression_threshold, state, encryption,
                    position, value, packet_len, callStart, wire, avail, closed,
                    peerVars, callerVars>>

\* ensure_n_ready_sync(len), then read_untyped_packet_in_buf(len): consume
\* the frame, decrypt it in place, read data length and id, return.
ReadBody ==
  LET n == packet_len
      need == raw_ready < n
      at == raw_offset + raw_ready
      buf == IF need THEN Fill(GetSizedBuf(raw_buf, at, n - raw_ready), at, consumed, n - raw_ready)
             ELSE raw_buf
      ready == IF need THEN n ELSE raw_ready
      offset == raw_offset
  IN /\ pc = "body" /\ (~need \/ Available(n - raw_ready))
     /\ consumed' = IF need THEN consumed + (n - raw_ready) ELSE consumed
     /\ raw_ready' = ready - n
     /\ raw_offset' = offset + n
     /\ \E d \in HandleDecryption(encryption, SubSeq(buf, offset + 1, offset + n)) :
          LET frame == UntypedPacket(d.out, compression_threshold, state)
              res == IF api \in AsyncApis THEN AsyncReadResult(frame, api)
                     ELSE SyncReadResult(frame, api)
          IN /\ raw_buf' = IF encryption = <<>> THEN buf
                           ELSE [k \in 1 .. Len(buf) |->
                                   IF k > offset /\ k <= offset + n
                                   THEN Plain(d.out[k - offset]) ELSE buf[k]]
             /\ encryption' = d.reg
             /\ decompress_buf' = Max({decompress_buf, DecompressLen(d.out, compression_threshold)})
             /\ Log(frame, res, "body")
             /\ pending' = EffectOf(res)
     /\ Return
     /\ UNCHANGED <<max_packet_size, compression_threshold, state, position, value, packet_len,
                    callStart, wire, avail, closed, peerVars, cipherResult>>

\* The async read (read_byte / ensure_n_ready_async) is dropped while
\* suspended in read_exact, e.g. by a timeout around read_packet_async: the
\* future never reaches `self.raw_ready = ...`, and the bytes read_exact had
\* already taken are in raw_buf, neither counted nor decrypted.  A sync
\* call blocks in read_exact and cannot be abandoned.
CancelRead ==
  LET body == pc = "body"
      need == IF body THEN packet_len - raw_ready ELSE 1 - raw_ready
      at == raw_offset + raw_ready
      point == IF body THEN "body" ELSE IF position = 0 THEN "len_first" ELSE "len_rest"
  IN /\ pc \in {"len", "body"} /\ api \in AsyncApis /\ point \in Cancellable
     /\ need > 0 /\ ~Available(need) /\ ~ReadExactEof(need)
     /\ raw_buf' = Fill(GetSizedBuf(raw_buf, at, need), at, consumed, avail - consumed)
     /\ consumed' = avail
     /\ Return
     /\ UNCHANGED <<max_packet_size, decompress_buf, raw_ready, raw_offset, compression_threshold, state, encryption,
                    position, value, packet_len, callStart, wire, avail, closed,
                    peerVars, callerVars>>

(***************************************************************************)
(* The caller, between read calls.                                         *)
(***************************************************************************)

\* After Set Compression or Login Success the client switches its reader
\* before asking for the next packet.
CallerSwitch ==
  /\ pc = "idle"
  /\ \/ /\ pending = "compress"
        /\ SetCompressionThreshold({Threshold})
        /\ UNCHANGED state
     \/ /\ pending = "play"
        /\ SetState(PlayState)
        /\ UNCHANGED compression_threshold
  /\ pending' = "none"
  /\ UNCHANGED <<max_packet_size, decompress_buf, raw_buf, raw_ready, raw_offset, encryption, callVars, sourceVars,
                 peerVars, cipherResult, results>>

\* enable_encryption(key, iv): after the encryption packet the client installs
\* the cipher (and retries when its key or iv was malformed); at any other
\* time a call is a second enable_encryption or one with malformed input.
CallerEnableEncryptionWith(keyLen, ivLen) ==
  /\ pc = "idle"
  /\ pending = "encrypt" \/ encryption # <<>> \/ keyLen # KeySize \/ ivLen # KeySize
  /\ EnableEncryption(keyLen, ivLen)
  /\ pending' = IF pending = "encrypt" /\ cipherResult' \in {"Ok", "AlreadyEnabled"}
                THEN "none" ELSE pending
  /\ UNCHANGED <<max_packet_size, decompress_buf, raw_buf, raw_ready, raw_offset, compression_threshold, state,
                 callVars, sourceVars, peerVars, results>>

CallerEnableEncryption ==
  \E keyLen, ivLen \in KeySizes : CallerEnableEncryptionWith(keyLen, ivLen)

CallerSetMaxPacketSize ==
  /\ pc = "idle"
  /\ \E n \in MaxSizes : SetMaxPacketSize(n)
  /\ UNCHANGED <<raw_buf, raw_ready, raw_offset, compression_threshold, state,
                 encryption, decompress_buf, callVars, sourceVars, peerVars, callerVars>>

CallerEnsureBufCapacity ==
  /\ pc = "idle"
  /\ \E c \in BufCapacities : EnsureBufCapacity(c)
  /\ UNCHANGED <<max_packet_size, decompress_buf, raw_ready, compression_threshold, state, encryption, callVars,
                 sourceVars, peerVars, callerVars>>

CallerEnsureCompressionBufCapacity ==
  /\ pc = "idle"
  /\ \E c \in CompressBufCapacities : EnsureCompressionBufCapacity(c)
  /\ UNCHANGED <<max_packet_size, raw_buf, raw_ready, raw_offset, compression_threshold,
                 state, encryption, callVars, sourceVars, peerVars, callerVars>>

(***************************************************************************)
(* The peer and the transport.                                             *)
(***************************************************************************)

\* The peer writes one packet as a CraftWriter does (spec.md 4.6), then
\* applies the switch the packet announces to its own writer.
PeerSend ==
  \E p \in Packets :
    LET f == Frame(p.id, p.body, peerThreshold)
    IN /\ ~closed /\ Len(sent) < MaxFrames
       /\ Len(FramePayload(PacketBytes(p.id, p.body), peerThreshold)) <= MaxPacketSize
       /\ p.id = EncryptId => encFrom = 0
       /\ p.id = CompressId => peerThreshold = {}
       /\ p.id = PlayId => peerState = InitialState
       /\ wire' = wire \o f
       /\ sent' = Append(sent,
                    [expect |-> PacketResult([id |-> p.id, state |-> peerState,
                                              direction |-> Direction], p.body),
                     start |-> Len(wire), consumes |-> Len(f)])
       /\ encFrom' = IF p.id = EncryptId THEN Len(wire) + Len(f) + 1 ELSE encFrom
       /\ peerThreshold' = IF p.id = CompressId THEN {Threshold} ELSE peerThreshold
       /\ peerState' = IF p.id = PlayId THEN PlayState ELSE peerState
       /\ UNCHANGED <<readerVars, callVars, avail, consumed, closed, callerVars>>

\* A peer that writes a malformed frame, with what the spec says it reads as.
PeerSendCrafted ==
  \E c \in CraftedFrames :
    /\ ~closed /\ Len(sent) < MaxFrames
    /\ c.compressed = (peerThreshold # {})
    /\ wire' = wire \o c.bytes
    /\ sent' = Append(sent, [expect |-> c.expect, start |-> Len(wire),
                             consumes |-> c.consumes])
    /\ UNCHANGED <<readerVars, callVars, avail, consumed, closed, peerThreshold,
                   peerState, encFrom, callerVars>>

Deliver ==
  /\ avail < Len(wire)
  /\ avail' = avail + 1
  /\ UNCHANGED <<readerVars, callVars, wire, consumed, closed, peerVars, callerVars>>

\* The peer closes the connection; what was not delivered yet is lost.
Close ==
  /\ ~closed
  /\ closed' = TRUE
  /\ wire' = SubSeq(wire, 1, avail)
  /\ UNCHANGED <<readerVars, callVars, avail, consumed, peerVars, callerVars>>

(***************************************************************************)
(* The specification.                                                      *)
(***************************************************************************)
Init ==
  \* CraftReader::wrap_with_state(inner, direction, State::Handshaking)
  /\ raw_buf = <<>> /\ raw_ready = 0 /\ raw_offset = 0
  /\ compression_threshold = {} /\ state = InitialState /\ encryption = <<>>
  /\ max_packet_size = MaxPacketSize /\ decompress_buf = 0
  /\ pc = "idle" /\ position = 0 /\ value = 0 /\ packet_len = 0 /\ callStart = 0
  /\ api = "none"
  /\ wire = <<>> /\ avail = 0 /\ consumed = 0 /\ closed = FALSE
  /\ sent = <<>> /\ peerThreshold = {} /\ peerState = InitialState /\ encFrom = 0
  /\ pending = "none" /\ cipherResult = "none" /\ results = <<>>

ReaderStep == ReadStart \/ ReadLenByteEof \/ ReadLenByte \/ ReadBodyEof \/ ReadBody

Next ==
  \/ ReaderStep
  \/ CancelRead
  \/ CallerSwitch \/ CallerEnableEncryption \/ CallerEnsureBufCapacity
  \/ CallerSetMaxPacketSize \/ CallerEnsureCompressionBufCapacity
  \/ PeerSend \/ PeerSendCrafted \/ Deliver \/ Close

\* The caller loops on read calls and reacts to every packet; the transport
\* delivers what was written.  The peer may stop or close at any time.
Fairness ==
  /\ WF_vars(ReadStart)
  /\ WF_vars(ReadLenByteEof \/ ReadLenByte)
  /\ WF_vars(ReadBodyEof \/ ReadBody)
  /\ WF_vars(CallerSwitch)
  /\ WF_vars(CallerEnableEncryptionWith(KeySize, KeySize))
  /\ WF_vars(Deliver)

Spec == Init /\ [][Next]_vars /\ Fairness

(***************************************************************************)
(* Properties.                                                             *)
(***************************************************************************)
Results ==
  [kind : {"packet"}, id : [id : Int, state : {InitialState, PlayState},
                            direction : {Direction}], body : Seq(Bytes)]
  \cup [kind : {"error"}, err : ErrorNames, size : Nat]

\* The largest max_packet_size the reader is ever configured with.
LargestMaxPacketSize == Max({MaxPacketSize} \cup MaxSizes)

TypeOK ==
  /\ raw_buf \in Seq(Entries)
  /\ raw_ready \in Nat /\ raw_offset \in Nat
  /\ compression_threshold \in SUBSET {Threshold}
  /\ state \in {InitialState, PlayState}
  /\ encryption \in {<<>>} \cup [1 .. CipherBlockBytes -> Int]
  /\ pc \in {"idle", "len", "body", "panicked"}
  /\ position \in 0 .. VarIntMaxBytes /\ value \in Int
  /\ max_packet_size \in {MaxPacketSize} \cup MaxSizes /\ decompress_buf \in Nat
  /\ packet_len \in 0 .. LargestMaxPacketSize /\ callStart \in Nat /\ api \in {"none"} \cup Apis
  /\ wire \in Seq(Bytes) /\ avail \in 0 .. Len(wire) /\ consumed \in 0 .. avail
  /\ closed \in BOOLEAN
  /\ sent \in Seq([expect : Results, start : Nat, consumes : Nat])
  /\ pending \in {"none", "encrypt", "compress", "play"}
  /\ cipherResult \in CipherResults
  /\ results \in Seq([res : Results, frame : Results, api : Apis, stage : {"len", "body"},
                      start : Nat, end : Nat, max : {MaxPacketSize} \cup MaxSizes])

(***************************************************************************)
(* Every read call that returns a packet or an error returns what the      *)
(* peer put in the next frame -- the id, the body, the protocol state the  *)
(* packet was sent in, or the error the spec gives for a malformed frame   *)
(* -- and takes exactly that frame off the transport (only its length      *)
(* prefix when the length is over max_packet_size).  This is what          *)
(* read_raw_untyped_packet promises across compression and encryption      *)
(* switches, byte-wise delivery and earlier read calls that returned None. *)
(* read_raw_packet and read_packet return that packet, or a PacketErr when *)
(* the raw-packet constructor rejects its Id -- unknown in the state it    *)
(* was sent in -- or, for read_packet, its body (spec.md 7), and in either *)
(* case take the whole frame, so the next call is still aligned.           *)
(* After a frame-length error the stream is no longer aligned and nothing  *)
(* is claimed.                                                             *)
(***************************************************************************)
Returned(e, a) ==
  IF /\ a \notin {"untyped", "untyped_async"} /\ e.kind = "packet"
     /\ \/ [state |-> e.id.state, id |-> e.id.id] \notin KnownIds
        \/ a \in {"typed", "typed_async"} /\ e.body \in MalformedBodies
  THEN ErrorResult("PacketErr") ELSE e

ReadsWhatWasSent ==
  \A j \in 1 .. Len(results) :
    (\A i \in 1 .. (j - 1) : results[i].stage = "body") =>
      /\ j <= Len(sent)
      /\ results[j].frame = sent[j].expect
      /\ results[j].res = Returned(sent[j].expect, results[j].api)
      /\ results[j].start = sent[j].start
      /\ results[j].end = sent[j].start + sent[j].consumes

(***************************************************************************)
(* set_max_packet_size between read calls governs the next read: a frame   *)
(* the peer wrote under a larger limit is a PacketTooLarge of its length   *)
(* that takes only its length prefix (spec.md 8, 7) when its length is over *)
(* the max_packet_size in force at the call, and is read as sent, whole,   *)
(* when it is not -- after the limit was lowered and raised again, and     *)
(* after earlier frames that read_raw_packet or read_packet rejected as a  *)
(* PacketErr.  The limit is self.max_packet_size as read at 308, not one   *)
(* cached from construction or from an earlier call.                       *)
(***************************************************************************)
ReadsUnderCurrentMax ==
  \A j \in 1 .. Len(results) :
    (\A i \in 1 .. (j - 1) : results[i].stage = "body") =>
      /\ j <= Len(sent)
      /\ results[j].start = sent[j].start
      /\ LET s == sent[j]
             bytes == SubSeq(wire, s.start + 1, Min({Len(wire), s.start + s.consumes}))
             d == VarIntDeserialize(bytes)
         IN IF AsUsize(d.value) > results[j].max
            THEN /\ results[j].frame = TooLarge(AsUsize(d.value))
                 /\ results[j].end = s.start + Len(bytes) - Len(d.rest)
            ELSE /\ results[j].frame = s.expect
                 /\ results[j].end = s.start + s.consumes

(***************************************************************************)
(* Between read calls, while there is a next byte to read, the decryptor   *)
(* has been fed every byte the reader took off the transport since         *)
(* encryption began, once each and in order: its CFB8 register is that of  *)
(* the peer's encryptor at that next byte.                                 *)
(* The length VarInt is decrypted byte by byte in read_packet_len_sync and *)
(* the rest of the frame in one call in read_untyped_packet_in_buf; a byte *)
(* skipped or decrypted twice breaks this (spec.md 8.1).                   *)
(***************************************************************************)
EachByteDecryptedOnce ==
  pc = "idle" /\ encryption # <<>> /\ consumed < Len(wire) =>
    encryption = CorrectRegister(consumed + 1)

(***************************************************************************)
(* The reader implements a packet channel (PacketChannel): its queue is   *)
(* the frames the peer has written in full and no read call has answered   *)
(* yet, its output what the read calls returned.  Every step of the reader *)
(* returns the oldest such packet or nothing; Close loses the frames not   *)
(* carried; and under the fairness of a caller that keeps reading, a       *)
(* frame that has arrived is eventually returned, whatever chunks it came  *)
(* in, whatever earlier calls returned None or were cancelled.             *)
(***************************************************************************)
FrameWritten(s) == s.start + s.consumes <= Len(wire)

ChannelQueue ==
  LET q == SelectSeq(SubSeq(sent, Len(results) + 1, Len(sent)), FrameWritten)
  IN [i \in DOMAIN q |-> q[i].expect]

ChannelReceived == [i \in DOMAIN results |-> results[i].frame]

ExpectedResults ==
  {PacketResult([id |-> p.id, state |-> st, direction |-> Direction], p.body) :
     p \in Packets, st \in {InitialState, PlayState}}
  \cup {c.expect : c \in CraftedFrames}

Channel == INSTANCE PacketChannel
             WITH Messages <- ExpectedResults,
                  queue <- ChannelQueue, received <- ChannelReceived

ImplementsPacketChannel == Channel!Spec

(***************************************************************************)
(* A peer cannot make the reader allocate: raw_buf never grows past the    *)
(* largest max_packet_size plus the five bytes of a length prefix, and     *)
(* decompress_buf never past the largest max_packet_size, however large a  *)
(* length or data length the frames announce (a 5-byte VarInt that wraps  *)
(* to a negative i32 casts to a huge usize) and whatever capacity a caller *)
(* asks ensure_buf_capacity or ensure_compression_buf_capacity for.        *)
(* read_raw_inner checks the length before ensure_n_ready_sync sizes       *)
(* raw_buf, read_untyped_packet_in_buf the data length before decompress   *)
(* sizes decompress_buf (even for a frame that then fails to inflate), and *)
(* both ensure_*_capacity clamp.                                           *)
(***************************************************************************)
BufferBounded ==
  /\ Len(raw_buf) <= LargestMaxPacketSize + VarIntMaxBytes
  /\ decompress_buf <= LargestMaxPacketSize

(***************************************************************************)
(* A length VarInt whose fifth byte still has its continuation bit set is  *)
(* a PacketHeaderErr (spec.md 7); the reader never panics on its input.   *)
(***************************************************************************)
NeverPanics == pc # "panicked"

=============================================================================
