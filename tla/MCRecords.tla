----------------------------- MODULE MCRecords ------------------------------
(***************************************************************************)
(* A document workflow for TLC: submit, cancel from either state, reopen.  *)
(***************************************************************************)
EXTENDS Records, TLC

CONSTANTS draft, submitted, cancelled

DocumentEdges ==
  {<<draft, submitted>>, <<draft, cancelled>>, <<submitted, cancelled>>, <<cancelled, draft>>}

=============================================================================
