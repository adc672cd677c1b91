\* A buffer array that no function of the recorded iteration accesses.
CONSTANTS
  X0 = X0  T0 = T0  X1 = X1  T1 = T1  O = O  None = None
  Others <- MCOthers
  MaxLen = 3
  MaxIters = 4
  DataRecorded = FALSE

SPECIFICATION Spec
INVARIANT RecordsPointToLive
