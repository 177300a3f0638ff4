--------------------------- MODULE MCSwapExecution ---------------------------
(***************************************************************************)
(* Instances of SwapExecution for TLC.                                     *)
(***************************************************************************)
EXTENDS SwapExecution, TLC
=============================================================================
