INIT Init
NEXT Next
CONSTANTS
  a = a
  b = b
  nl = nl
  NL = nl
  Opaque = Opaque
  MaxLength = 6
  Byte <- MCByte
  Counter = {"input", "output"}
  Payload <- Payloads
  Body <- Bodies
  maxUsageBuffer = 2
INVARIANTS
  ChunksDoNotMatter
  StreamedIsCounted
