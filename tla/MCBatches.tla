------------------------------ MODULE MCBatches ------------------------------
(***************************************************************************)
(* Instances of BatchReader for TLC.                                       *)
(***************************************************************************)
EXTENDS BatchReader

CONSTANTS reader1, task

OneThread == {reader1}
==============================================================================
