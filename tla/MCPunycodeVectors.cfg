SPECIFICATION Spec
CONSTANTS
  Base = 36
  TMin = 1
  TMax = 26
  Skew = 38
  Damp = 700
  InitialBias = 72
  InitialN = 128
  MaxInt = 2147483647
  Delimiter = 45
  DigitChar <- RealDigitChar
  AcePrefix <- RealAcePrefix
  Labels <- VectorLabels
  MaxCodePoint = 1114111
  Surrogates <- RealSurrogates
INVARIANT MatchesFixture
CHECK_DEADLOCK FALSE
