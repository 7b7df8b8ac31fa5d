SPECIFICATION BothSpec
CONSTANTS
  Base = 4
  TMin = 2
  TMax = 3
  Skew = 2
  Damp = 3
  InitialBias = 4
  InitialN = 6
  MaxInt = 14
  Delimiter = 0
  DigitChar <- MCDigitChar
  AcePrefix <- MCAcePrefix
  Labels <- MCLabels
  MaxCodePoint = 10
  Surrogates <- MCSurrogates
  Inputs <- MCStrings
INVARIANTS TypeOK EncoderTypeOK CountsWritten DecodesEncoding EncodesDecoding
PROPERTY AgreesWithVerify
CHECK_DEADLOCK FALSE
