SPECIFICATION AllSpec
CONSTANTS
  Threads = {caller, other}
  Caller = caller
  Dot <- dot
  Ace <- ace
  Ascii <- MCAscii
  Lower <- MCLower
  WellFormed <- MCWellFormed
  Bytes <- MCBytes
  MaxBytes = 12
  Disallowed <- MCDisallowed
  MapsTo <- MCMapsTo
  Nfc <- MCNfc
  Valid <- MCValid
  Undecodable <- MCUndecodable
  Decode <- MCDecode
  Unencodable <- MCUnencodable
  Encode <- MCEncode
  Inputs <- MCInputs
  MaxLength = 2
INVARIANTS AllTypeOK LabelByLabel NoGoingBack FailureLeavesNothing LabelsKept
  Idempotent RoundTrip
CHECK_DEADLOCK FALSE
