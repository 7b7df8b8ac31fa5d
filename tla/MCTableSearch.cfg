SPECIFICATION Spec
CONSTANTS
  Ranges <- MCRanges
  Rows <- MCRows
  IdStart <- MCIdStart
  IdContinue <- MCIdContinue
  AsciiStart = {1}
  AsciiContinue = {1, 3}
  Surrogates = {4}
  CodePoints <- Numbers
INVARIANTS TypeOK FindsRange FindsPair
CHECK_DEADLOCK FALSE
