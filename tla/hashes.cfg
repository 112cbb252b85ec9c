SPECIFICATION HashSpec
CONSTANTS
  WordBits = 64
  Byte <- Varied
  PieceSizes = {9, 55, 56, 64, 65}
  MaxLength = 130
  MessageLengths = {0, 15, 17, 55, 56, 64, 120, 128}
  NHBYTES = 128
  Pieces = {1, 2}
  MaxBytes = 300
INVARIANTS
  DigestIsStandard
  TagOfMessageIffPadded
