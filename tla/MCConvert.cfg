CONSTANTS
  kA = kA
  kB = kB
  h1 = h1
  None = None
  Invalid = Invalid
  ClockError = ClockError
  KEY_LEN = 2
  NANOS_PER_SEC = 1000000000
  U64_MAX = 2147483647
  ADDR_BITS = 4
  KeyIds <- MCKeyIds
  Hosts <- MCHosts
  Clock <- MCClock
  GetDevices <- MCGetDevices
  Interfaces <- MCInterfaces
INIT Init
NEXT Next
INVARIANTS TypeOK QueryKeepsLastOccurrence ConnectedMatchesSpec RoundTripPreserved
CHECK_DEADLOCK FALSE
