\* Recording, tracing iterations and the id-space boundary, without reset.
CONSTANTS
  h1 = h1  h2 = h2  h3 = h3  Dev = Dev  Cpu = Cpu  Other = Other
  Device = Dev  Host = Cpu
  ArraySize <- MCArraySize
  Budget = 3
  GETCAST = GETCAST  CLEAR = CLEAR  NoPlan = NoPlan
  Handles <- MCHandles
  Classes <- MCAllClasses
  IdWidth = 1
  MaxLen = 3
  MaxFuncs = 3
  MaxIters = 3
  MaxResets = 0

SPECIFICATION Spec
PROPERTY RecordedTrace
INVARIANT FirstIterInFlight
INVARIANT PlannerInputClean
INVARIANT CallbackReleased
