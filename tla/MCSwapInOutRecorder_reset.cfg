\* Reset between iterations.
CONSTANTS
  h1 = h1  h2 = h2  h3 = h3  Dev = Dev  Cpu = Cpu  Other = Other
  Device = Dev  Host = Cpu
  ArraySize <- MCArraySize
  Budget = 3
  GETCAST = GETCAST  CLEAR = CLEAR  NoPlan = NoPlan
  Handles <- MCHandles
  Classes <- MCDeviceOnly
  IdWidth = 1
  MaxLen = 3
  MaxFuncs = 2
  MaxIters = 3
  MaxResets = 1

SPECIFICATION Spec
INVARIANT RecorderTypeOK
INVARIANT IdsIdentifyArrays
