SPECIFICATION Spec
CONSTANTS
  t1 = t1  t2 = t2
  Thread = {t1, t2}
  Kind <- CloseAndRefusal
  None = None
  MaxFailures = 1
CHECK_DEADLOCK FALSE
INVARIANT NoCircularWait
