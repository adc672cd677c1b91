\* Waits of the last regular function are lost to the wait-for-all overwrite.
CONSTANTS
  a = a  b = b  F32 = F32  F16 = F16  Dev = Dev  Cpu = Cpu  Other = Other
  GETCAST = GETCAST  CLEAR = CLEAR  NoRec = NoRec
  Ids <- MCIds
  DTypes = {F32}
  SizeOfDType <- MCSizeOfDType
  ArraySize <- MCArraySize
  Classes = {Dev, Cpu}
  Device = Dev
  Host = Cpu
  Budgets <- MCBudgets
  MaxLen = 2
  MaxFuncs = 3
  ByteWidth = 8

SPECIFICATION Spec
INVARIANT WaitCoverage
