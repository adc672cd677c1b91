------------------------- MODULE MCSwapInOutPlanner -------------------------
(***************************************************************************)
(* Model-checking instance of the planner.  Two arrays of different sizes  *)
(* (2 and 4 bytes with a 2-byte dtype), so that a prefetch can fit for one *)
(* and not the other.  Budgets 4, 7 and 12 give prefetch shares of 2, 4    *)
(* and 6 bytes and swap-out shares of 2, 3 and 6 bytes: under 4 only `a`   *)
(* fits, under 7 `b` fits but its swap-out alone exceeds the share (the    *)
(* odd budget rounds bytes / 2 down), under 12 both fit together.  The    *)
(* planner thus stops fetching, waits for swap-outs and raises            *)
(* out-of-memory on some traces.                                          *)
(***************************************************************************)
EXTENDS SwapInOutPlanner

CONSTANTS a, b, F32, F16, Dev, Cpu, Other

MCIds == {a, b}
MCArraySize == (a :> 1) @@ (b :> 2)
MCSizeOfDType == (F32 :> 2) @@ (F16 :> 1)
MCBudgets == {4, 7, 12}
=============================================================================
