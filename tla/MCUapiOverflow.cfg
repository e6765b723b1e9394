CONSTANTS
  kA = kA
  kB = kB
  h1 = h1
  h2 = h2
  None = None
  Invalid = Invalid
  ClockError = ClockError
  KEY_LEN = 2
  NANOS_PER_SEC = 1000
  U64_MAX = 2047
  KeyIds <- MCKeyIds
  Hosts <- MCHosts
  Texts <- OverflowTexts
  Clock <- MCClock
  OtherLines <- MCOtherLines
  MAX_LINES = 3
  TERMINATED = TRUE
  TRAILING = FALSE
  UNIQUE_KEYS = {"listen_port", "last_handshake_time_sec", "last_handshake_time_nsec"}
INIT Init
NEXT Next
PROPERTY ImplementsUapiSpec
CHECK_DEADLOCK FALSE
