CONSTANTS
  Threads = {t1, t2}
  Nobody = Nobody
  MaxCalls = 2
  KernelMayRefuse = TRUE
  AbortOnErr = FALSE
SPECIFICATION Spec
INVARIANTS
  MutexDiscipline
  RefusalIsFinal
PROPERTY CallsReturn
CHECK_DEADLOCK FALSE
