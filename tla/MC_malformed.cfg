\* A peer that sends malformed frames around the switch to compression:
\* every error path of a read call, frames at and over max_packet_size.
\* A length prefix of five continuation bytes makes the reader panic, which
\* ends the reading task: the system may stop there.
CONSTANTS
  SeptetBits = 2
  VarIntBits = 9
  UsizeBits = 12
  ZlibHeader = 3
  MaxPacketSize = 6
  MaxSizes = {}
  CipherBlockBytes = 16
  KeySize = 16
  KeySizes = {16, 15}
  Direction = ClientBound
  InitialState = Login
  PlayState = Play
  Threshold = 2
  EncryptId = 1
  CompressId = 3
  PlayId = 2
  Packets <- MCMalformedPackets
  CraftedFrames <- MCCraftedFrames
  MaxFrames = 3
  BufCapacities = {12}
  CompressBufCapacities = {12}
  GarbageBytes = {0}
  EofIsFinal = TRUE
  Cancellable = {}
  Apis = {"untyped"}
  KnownIds = {}
  MalformedBodies = {}

SPECIFICATION Spec
INVARIANT ReadsWhatWasSent
INVARIANT BufferBounded
CHECK_DEADLOCK FALSE
