\* A peer whose compressed frame inflates to fewer bytes than it announces.
CONSTANTS
  SeptetBits = 2
  VarIntBits = 9
  UsizeBits = 12
  ZlibHeader = 3
  MaxPacketSize = 6
  MaxSizes = {}
  CipherBlockBytes = 16
  KeySize = 16
  KeySizes = {16, 15}
  Direction = ClientBound
  InitialState = Login
  PlayState = Play
  Threshold = 2
  EncryptId = 1
  CompressId = 3
  PlayId = 2
  Packets <- MCMalformedPackets
  CraftedFrames <- MCShortInflateFrames
  MaxFrames = 3
  BufCapacities = {9}
  CompressBufCapacities = {}
  GarbageBytes = {0}
  EofIsFinal = TRUE
  Cancellable = {}
  Apis = {"untyped"}
  KnownIds = {}
  MalformedBodies = {}

SPECIFICATION Spec
INVARIANT ReadsWhatWasSent
