--------------------------- MODULE MCSwapInOutDali ---------------------------
(***************************************************************************)
(* Model-checking instance of use_dali: the two buffers and one other     *)
(* array, traces of up to 3 records, four iterations (both parities after *)
(* the lookup of iteration 1).                                             *)
(***************************************************************************)
EXTENDS SwapInOutDali

CONSTANTS O

MCOthers == {O}
=============================================================================
