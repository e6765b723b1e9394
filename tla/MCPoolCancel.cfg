CONSTANTS
  Tasks = {t1}
  Fds = {3, 4, 5}
  CONNECT_ERR = FALSE
  CANCEL = TRUE
  NB_FAIL = FALSE
  BORINGTUN = FALSE
INIT Init
NEXT Next
INVARIANT InternalSocketsUnprotected
