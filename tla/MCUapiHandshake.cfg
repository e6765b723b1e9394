CONSTANTS
  kA = kA
  kB = kB
  h1 = h1
  h2 = h2
  None = None
  Invalid = Invalid
  ClockError = ClockError
  KEY_LEN = 2
  NANOS_PER_SEC = 1000000000
  U64_MAX = 2147483647
  KeyIds <- MCKeyIds
  Hosts <- MCHosts
  Texts <- HandshakeTexts
  Clock <- MCHandshakeClock
  OtherLines <- MCOtherLines
  MAX_LINES = 6
  TERMINATED = TRUE
  TRAILING = FALSE
  UNIQUE_KEYS = {"listen_port"}
INIT Init
NEXT Next

PROPERTY ImplementsUapiSpec
CHECK_DEADLOCK FALSE
