\* A caller that lowers max_packet_size below frames the peer already wrote,
\* raises it again, and asks for buffer capacity above it, between reads
\* with read_raw_packet and read_packet, sync and async.
CONSTANTS
  SeptetBits = 2
  VarIntBits = 9
  UsizeBits = 12
  ZlibHeader = 3
  MaxPacketSize = 8
  MaxSizes = {6, 8}
  CipherBlockBytes = 16
  KeySize = 16
  KeySizes = {16}
  Direction = ClientBound
  InitialState = Login
  PlayState = Play
  Threshold = 2
  EncryptId = 1
  CompressId = 3
  PlayId = 2
  Packets <- MCReconfigPackets
  CraftedFrames = {}
  MaxFrames = 2
  BufCapacities = {14}
  CompressBufCapacities = {14}
  GarbageBytes = {0}
  EofIsFinal = TRUE
  Cancellable = {}
  Apis = {"raw", "typed", "raw_async", "typed_async"}
  KnownIds <- MCReconfigKnownIds
  MalformedBodies <- MCReconfigMalformed

SPECIFICATION Spec
INVARIANT ReadsUnderCurrentMax
\* After a PacketTooLarge the reader takes body bytes as a length prefix and
\* may reach the panic of five continuation bytes: the system may stop there.
CHECK_DEADLOCK FALSE
