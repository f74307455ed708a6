------------------------------- MODULE MCFollow -------------------------------
(***************************************************************************)
(* A follower and two leaders.                                             *)
(***************************************************************************)
EXTENDS FollowMobility

CONSTANTS l1, l2, f1

=============================================================================
