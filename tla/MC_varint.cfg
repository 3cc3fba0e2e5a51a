\* The length loop of read_packet_len_sync fed every byte string of up to
\* five bytes, and every run of five continuation bytes and one more.  Each
\* behaviour is one call of the loop: it stops when the call returns or
\* panics, so the system may stop.
CONSTANTS
  SeptetBits = 2
  VarIntBits = 9
  UsizeBits = 12
  ZlibHeader = 3
  Inputs <- MCInputs

SPECIFICATION Spec
INVARIANT LengthRoundTrip
INVARIANT AgreesWithDeserialize
CHECK_DEADLOCK FALSE
