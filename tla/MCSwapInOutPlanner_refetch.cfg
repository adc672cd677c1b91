\* A re-fetch of an array whose swap-out flag an older wait has cleared.
CONSTANTS
  a = a  b = b  F32 = F32  F16 = F16  Dev = Dev  Cpu = Cpu  Other = Other
  GETCAST = GETCAST  CLEAR = CLEAR  NoRec = NoRec
  Ids <- MCIds
  DTypes = {F32}
  SizeOfDType <- MCSizeOfDType
  ArraySize <- MCArraySize
  Classes = {Dev}
  Device = Dev
  Host = Cpu
  Budgets <- MCBudgets
  MaxLen = 3
  MaxFuncs = 4
  ByteWidth = 8

SPECIFICATION Spec
PROPERTY CancelOnRefetch
