------------------------ MODULE MCSwapInOutIteration ------------------------
(***************************************************************************)
(* Model-checking instance of iteration 1 after planning.  The two arrays  *)
(* of MCSwapInOutPlanner and one fresh handle `x`, which stands for an     *)
(* array created anew in the later iteration (replacing `a` or `b`, or     *)
(* used by an extra get/cast).  One budget, under which both arrays fit,   *)
(* so that planning reaches "done" on most traces and the iteration runs.  *)
(***************************************************************************)
EXTENDS SwapInOutIteration

CONSTANTS a, b, x, F32, F16, Dev, Cpu, Other

MCIds == {a, b}
MCFresh == {x}
MCArraySize == (a :> 1) @@ (b :> 2)
MCSizeOfDType == (F32 :> 2) @@ (F16 :> 1)
MCBudgets == {12}
=============================================================================
