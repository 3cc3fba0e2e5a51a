\* A well-behaved peer through the login sequence: compression, encryption
\* and the switch to Play, byte-wise delivery, a close at any point.
CONSTANTS
  SeptetBits = 2
  VarIntBits = 9
  UsizeBits = 12
  ZlibHeader = 3
  MaxPacketSize = 8
  MaxSizes = {}
  CipherBlockBytes = 16
  KeySize = 16
  KeySizes = {16, 15}
  Direction = ClientBound
  InitialState = Login
  PlayState = Play
  Threshold = 2
  EncryptId = 1
  CompressId = 3
  PlayId = 2
  Packets <- MCPackets
  CraftedFrames = {}
  MaxFrames = 3
  BufCapacities = {9}
  CompressBufCapacities = {}
  GarbageBytes = {0}
  EofIsFinal = TRUE
  Cancellable = {"len_first", "len_rest", "body"}
  Apis = {"untyped_async"}
  KnownIds = {}
  MalformedBodies = {}

SPECIFICATION Spec
INVARIANT ReadsWhatWasSent
