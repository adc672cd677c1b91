\* The planner on every trace of up to 4 records over two arrays, one dtype,
\* device, host and an unsupported context, split into up to 3 functions,
\* under budgets 4, 7 and 12.
CONSTANTS
  a = a  b = b  F32 = F32  F16 = F16  Dev = Dev  Cpu = Cpu  Other = Other
  GETCAST = GETCAST  CLEAR = CLEAR  NoRec = NoRec
  Ids <- MCIds
  DTypes = {F32}
  SizeOfDType <- MCSizeOfDType
  ArraySize <- MCArraySize
  Classes = {Dev, Cpu, Other}
  Device = Dev
  Host = Cpu
  Budgets <- MCBudgets
  MaxLen = 4
  MaxFuncs = 3
  ByteWidth = 8

SPECIFICATION Spec
INVARIANT TypeOK
INVARIANT WindowCounts
INVARIANT ResidentBytes
INVARIANT QueueWithinPrefetchShare
INVARIANT InFlightSwapOut
INVARIANT PreclearMatchesTrace
PROPERTY CancelOnlyInFlight
PROPERTY Termination
