SPECIFICATION Spec
CONSTANTS
  Zwnj = "zwnj"
  Zwj = "zwj"
  Combining <- MCCombining
  Virama <- MCVirama
  Joining <- MCJoining
  Direction <- MCDirection
  Inputs <- MCInputs
  MaxLabels = 1
INVARIANTS EveryJoinerInContext RtlLabelsKeepRule RejectsOnlyByRule
CHECK_DEADLOCK FALSE
