SPECIFICATION Spec
CONSTANTS
  Blobs <- MCBlobs
  Sections <- MCSections
  uncompressed_crc32 <- MCChecksum
INVARIANTS TypeOK InflatesAll ReadyIfIntact LoadsAsPacked
CHECK_DEADLOCK FALSE
