------------------------------ MODULE MCMobility ------------------------------
(***************************************************************************)
(* Three places, and missions of none, of one and of three waypoints.      *)
(***************************************************************************)
EXTENDS MissionMobility

CONSTANTS a, b, c

MCMissions == {<<>>, <<a>>, <<b, a>>, <<a, b, c>>}

=============================================================================
