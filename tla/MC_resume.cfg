\* The same peer over a byte source that reports UnexpectedEof whenever it
\* is drained and is read again once more data arrives (spec.md 4.5, S5,
\* 8.8: partial progress is kept and the reader resumes).
CONSTANTS
  SeptetBits = 2
  VarIntBits = 9
  UsizeBits = 12
  ZlibHeader = 3
  MaxPacketSize = 8
  MaxSizes = {}
  CipherBlockBytes = 16
  KeySize = 16
  KeySizes = {16, 15}
  Direction = ClientBound
  InitialState = Login
  PlayState = Play
  Threshold = 2
  EncryptId = 1
  CompressId = 3
  PlayId = 2
  Packets <- MCPackets
  CraftedFrames = {}
  MaxFrames = 3
  BufCapacities = {9}
  CompressBufCapacities = {}
  GarbageBytes = {0}
  EofIsFinal = FALSE
  Cancellable = {}
  Apis = {"untyped"}
  KnownIds = {}
  MalformedBodies = {}

SPECIFICATION Spec
INVARIANT ReadsWhatWasSent
