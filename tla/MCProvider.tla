------------------------------ MODULE MCProvider ------------------------------
(***************************************************************************)
(* The encapsulators of two missions, one after the other.                 *)
(***************************************************************************)
EXTENDS EmbeddedProvider

CONSTANTS e1, e2

=============================================================================
