CONSTANTS
  Tasks = {t1, t2, t3}
  Fds = {3, 4, 5}
  CONNECT_ERR = TRUE
  CANCEL = FALSE
  NB_FAIL = FALSE
  BORINGTUN = FALSE
SPECIFICATION Spec
INVARIANTS OwnershipExclusive NoStaleRegistration
