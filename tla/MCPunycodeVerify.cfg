SPECIFICATION Spec
CONSTANTS
  Base = 4
  TMin = 1
  TMax = 2
  Skew = 2
  Damp = 3
  InitialBias = 12
  InitialN = 6
  MaxInt = 20
  Delimiter = 0
  DigitChar <- MCDigitChar
  AcePrefix <- MCAcePrefix
  Inputs <- MCStrings
INVARIANT LeadingDelimiterRejected
CHECK_DEADLOCK FALSE
