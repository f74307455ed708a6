-------------------------------- MODULE Patrol --------------------------------
(***************************************************************************)
(* The route of a waypoint mission, as the documentation of                *)
(* MissionMobilityPlugin and LoopMission tells it: waypoints in turn to    *)
(* the end, where the mission ends, starts again, or is flown backwards to *)
(* its first waypoint and then forwards again.  The node turns round when  *)
(* set_reversed asks for the other direction; Refuse is the one step the   *)
(* documentation does not have.                                            *)
(***************************************************************************)
EXTENDS Integers, Sequences

CONSTANTS Missions, None

VARIABLES
    mode,      \* what to do at the end of the mission: "NO", "RESTART" or "REVERSE"
    mission,   \* the waypoints, or None
    leg,       \* the waypoint the node travels to, counted from 0, or None
    back,      \* whether the mission is flown backwards
    asked,     \* the direction set_reversed was asked for, if that was the last step
    handsOff   \* nobody calls the plugin any more

vars == <<mode, mission, leg, back, asked, handsOff>>

Init ==
    /\ mode \in {"NO", "RESTART", "REVERSE"}
    /\ mission = None /\ leg = None /\ back = FALSE /\ asked = None /\ handsOff = FALSE

Last == Len(mission) - 1

Clear == /\ mission' = None /\ leg' = None /\ back' = FALSE /\ asked' = None
         /\ UNCHANGED <<mode, handsOff>>

Ongoing == mission # None /\ UNCHANGED <<mode, mission, handsOff>>

\* A waypoint of the mission becomes the one to fly to, in the direction b.
Travel(l, b) == Ongoing /\ leg' = l /\ back' = b /\ asked' = None

\* start_mission, stop_mission, set_current_waypoint.
Begin(m) ==
    /\ ~handsOff
    /\ mission' = m /\ leg' = 0 /\ back' = FALSE /\ asked' = None
    /\ UNCHANGED <<mode, handsOff>>

Stop == ~handsOff /\ Clear

GoTo == ~handsOff /\ mission # None /\ \E l \in 0 .. Last : Travel(l, back)

LetGo == ~handsOff /\ handsOff' = TRUE /\ UNCHANGED <<mode, mission, leg, back, asked>>

-----------------------------------------------------------------------------
(* set_reversed(r).                                                        *)

\* The waypoint the node comes from.
From == IF back THEN leg + 1 ELSE leg - 1

AskedFor(r) == Ongoing /\ ~handsOff /\ mode = "REVERSE" /\ asked' = r

AlreadySo(r) == AskedFor(r) /\ r = back /\ UNCHANGED <<leg, back>>

TurnRound(r) == /\ AskedFor(r) /\ r # back /\ From \in 0 .. Last
                /\ back' = r /\ leg' = From

\* Not as documented: the node comes from outside the mission, and does not turn round.
\* On its way to the first waypoint it goes there; flown backwards to the last, it
\* goes to the one before that.  In a mission of one waypoint it may turn as well.
Refuse(r) ==
    /\ AskedFor(r) /\ r # back /\ From \notin 0 .. Last
    /\ \/ back' = back /\ leg' = IF back /\ Last > 0 THEN leg - 1 ELSE leg
       \/ Last = 0 /\ back' = r /\ leg' = leg

-----------------------------------------------------------------------------
(* The node reaches the waypoint.                                          *)

\* The next waypoint in the direction of travel.
Onwards ==
    /\ mission # None
    /\ \E l \in 0 .. Last : l = (IF back THEN leg - 1 ELSE leg + 1) /\ Travel(l, back)

End == mode = "NO" /\ mission # None /\ leg = Last /\ Clear

StartAgain ==
    mission # None /\ mode = "RESTART" /\ leg = Last /\ Travel(0, back)

\* At the last waypoint, or at the first: the other direction, from where one is.
TurnAtLast == /\ mission # None /\ mode = "REVERSE" /\ leg = Last /\ ~back
              /\ Travel(IF Last = 0 THEN 0 ELSE Last - 1, TRUE)

TurnAtFirst == mode = "REVERSE" /\ leg = 0 /\ back /\ Travel(0, FALSE)

Next ==
    \/ \E m \in Missions : Begin(m)
    \/ Stop \/ GoTo \/ LetGo
    \/ \E r \in BOOLEAN : AlreadySo(r) \/ TurnRound(r) \/ Refuse(r)
    \/ Onwards \/ End \/ StartAgain \/ TurnAtLast \/ TurnAtFirst

Spec == Init /\ [][Next]_vars

=============================================================================
