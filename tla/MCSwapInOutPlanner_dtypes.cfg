\* One array used with two dtypes: its bytes are released twice.
CONSTANTS
  a = a  b = b  F32 = F32  F16 = F16  Dev = Dev  Cpu = Cpu  Other = Other
  GETCAST = GETCAST  CLEAR = CLEAR  NoRec = NoRec
  Ids <- MCIds
  DTypes = {F32, F16}
  SizeOfDType <- MCSizeOfDType
  ArraySize <- MCArraySize
  Classes = {Dev}
  Device = Dev
  Host = Cpu
  Budgets <- MCBudgets
  MaxLen = 2
  MaxFuncs = 3
  ByteWidth = 8

SPECIFICATION Spec
INVARIANT BudgetSafety
