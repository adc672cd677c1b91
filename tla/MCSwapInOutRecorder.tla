------------------------ MODULE MCSwapInOutRecorder ------------------------
(***************************************************************************)
(* Model-checking instance of the recorder and lifecycle: three arrays    *)
(* and one-bit ids, so that the third array is the first whose id would   *)
(* not fit.  The arrays take 1, 2 and 1 bytes under a budget of 3, so the *)
(* swap-out limit is 1: one array of 1 byte may stay in flight, the array *)
(* of 2 bytes, or two arrays, make the recording iteration wait.          *)
(***************************************************************************)
EXTENDS SwapInOutRecorder

CONSTANTS h1, h2, h3, Dev, Cpu, Other

MCHandles == {h1, h2, h3}
MCArraySize == [h \in MCHandles |-> IF h = h2 THEN 2 ELSE 1]
\* Device, host and an unsupported class.
MCAllClasses == {Dev, Cpu, Other}
MCDeviceOnly == {Dev}
=============================================================================
