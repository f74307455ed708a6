------------------------------- MODULE MCMission -------------------------------
(***************************************************************************)
(* The mission lifecycle on small instances: the clients and transports    *)
(* are model values, given in the configurations.                          *)
(***************************************************************************)
EXTENDS MissionLifecycle, TLC

CONSTANTS c1, c2, t1, t2

\* Requests are told apart by nothing but their client, and transports only by
\* being different, so both may be permuted.
Symmetry == Permutations(Clients) \cup Permutations(Transports)

=============================================================================
