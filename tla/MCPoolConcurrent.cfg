CONSTANTS
  Tasks = {t1, t2, t3}
  Fds = {3, 4, 5, 6}
  CONNECT_ERR = FALSE
  CANCEL = TRUE
  NB_FAIL = TRUE
  BORINGTUN = TRUE
INIT Init
NEXT Next
INVARIANT ExternalsProtected
