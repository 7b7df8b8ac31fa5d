SPECIFICATION TextSpec
CONSTANTS
  Octets <- MCOctets
  CodePoints <- MCCodePoints
  Block8 = 2
  Block32 = 2
  Labels <- MCLabels
  AsciiTexts <- MCAsciiTexts
  encode_utf8 <- Utf8
  Valid <- MCValid
  MapsTo <- MCMapsTo
  IDNA_BLOCK_SIZE = 64
  IDNA_LOW_RANGE_END = 512
  IDNA_VALID = 65535
  IDNA_DISALLOWED = 65534
  IDNA_IGNORED = 0
  IDNA_BOOL_FLAG = 32768
  IDNA_HIGH_IGNORED_START = 917760
  IDNA_HIGH_IGNORED_END = 918000
  Lanes = 3
INVARIANTS TypeOK WritesFit AcceptsUtf8 PassesAgree MapsAsTable
CHECK_DEADLOCK FALSE
