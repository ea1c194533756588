--------------------------- MODULE MCOperationRun ---------------------------
(***************************************************************************)
(* The instance of OperationRun for TLC: its constants are model values.   *)
(***************************************************************************)
EXTENDS OperationRun
=============================================================================
