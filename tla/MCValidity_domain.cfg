SPECIFICATION Spec
CONSTANTS
  Zwnj = "zwnj"
  Zwj = "zwj"
  Combining <- MCCombining
  Virama <- MCVirama
  Joining <- MCJoining
  Direction <- MCDirection
  Inputs <- MCLabels
  MaxLabels = 2
INVARIANT BidiDomainRule
CHECK_DEADLOCK FALSE
