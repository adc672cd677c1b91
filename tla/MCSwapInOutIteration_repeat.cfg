\* A repeated graph must not raise target_specific_async.
CONSTANTS
  a = a  b = b  x = x  F32 = F32  F16 = F16  Dev = Dev  Cpu = Cpu  Other = Other
  GETCAST = GETCAST  CLEAR = CLEAR  NoRec = NoRec
  Ids <- MCIds
  Fresh <- MCFresh
  DTypes = {F32}
  SizeOfDType <- MCSizeOfDType
  ArraySize <- MCArraySize
  Classes = {Dev, Cpu, Other}
  Device = Dev
  Host = Cpu
  Budgets <- MCBudgets
  MaxLen = 3
  MaxFuncs = 3
  ByteWidth = 8

SPECIFICATION IterSpec
INVARIANT NoAsyncErrorOnRepeat
