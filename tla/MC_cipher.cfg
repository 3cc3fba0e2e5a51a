\* A writer encrypting frames of one to three bytes, a reader decrypting
\* them in slices of one to three bytes.  Once the writer has written
\* MaxWire bytes and the reader has decrypted them, nothing is left to do.
CONSTANTS
  BlockBytes = 2
  ByteBits = 2
  Key = 1
  Iv <- MCIv
  Plaintexts <- MCPlaintexts
  MaxWire = 4
  ReadSizes = {1, 2, 3}

SPECIFICATION Spec
INVARIANT TypeOK
INVARIANT RoundTrip
INVARIANT RegisterIsCiphertext
CHECK_DEADLOCK FALSE
