CONSTANTS
  Bytes = {0, 1, 5, 7, 8, 128, 254, 255}
  MAX_LEN = 3
SPECIFICATION Spec
INVARIANTS DecodeMatchesTypes IdsAreBigEndian EncodeDecodeAgree
