SPECIFICATION DigestSpec
CONSTANTS
  BlockSize = 4
  LengthBytes = 2
  ByteBits = 3
  None = None
  Bytes = {0, 4}
  MaxMessage = 9
  MaxFinals = 2
INVARIANTS TypeOK DigestIsOfTheMessage SecondDigestIsWrong
