------------------------- MODULE MCReasoningRouter --------------------------
(***************************************************************************)
(* ReasoningRouter for TLC: the configurations differ in constants only.   *)
(***************************************************************************)
EXTENDS ReasoningRouter
=============================================================================
