------------------------------ MODULE MCDetector ------------------------------
(***************************************************************************)
(* One failure detector with the thresholds it has by default.  Peers are  *)
(* model values, given in the configurations.                              *)
(***************************************************************************)
EXTENDS FailureDetector

CONSTANT p1

=============================================================================
