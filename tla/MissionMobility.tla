---------------------------- MODULE MissionMobility ----------------------------
(***************************************************************************)
(* The plugin that flies a list of waypoints                               *)
(* (protocol/plugin/mission_mobility.py), with the vehicle it flies and    *)
(* the protocol that calls it.                                             *)
(*                                                                         *)
(* A GOTO is sent once, when the waypoint changes.  It leaves in a task of *)
(* its own (provider._fire_and_forget), so it may be refused, may overtake *)
(* an earlier one, and nobody looks at the answer.  The plugin learns of   *)
(* the vehicle from telemetry alone, and a sample is old when it comes.    *)
(***************************************************************************)
EXTENDS Integers, Sequences, FiniteSets

CONSTANTS
    Places,      \* positions further from each other than the tolerance
    Between,     \* anywhere else
    Missions,    \* lists of waypoints
    None,
    MaxOlder     \* bound: commands on their way besides the latest

ASSUME MobilityAssumption ==
    /\ Between \notin Places /\ None \notin Places \cup {Between}
    /\ Missions \subseteq Seq(Places) /\ None \notin Missions /\ None \notin Int
    /\ MaxOlder \in Nat

VARIABLES
    mode,        \* loop_mission
    mission,     \* _current_mission
    waypoint,    \* _current_waypoint
    reversed,    \* _is_reversed
    idle,        \* _is_idle
    asked,       \* history: what set_reversed was asked for last, None once the waypoint
                 \* was changed by anything else
    latest,      \* the latest GOTO, while it is on its way
    older,       \* earlier ones that are on their way as well
    misled,      \* history: the latest GOTO was refused, or overtook another
    dest,        \* the vehicle's destination
    at,          \* where it is
    sample,      \* a telemetry sample that is being answered
    handsOff     \* the protocol calls the plugin no more

vars == <<mode, mission, waypoint, reversed, idle, asked, latest, older, misled, dest, at,
          sample, handsOff>>
plan == <<mission, waypoint, reversed, idle, asked>>
command == <<latest, older, misled>>
vehicle == <<dest, at>>

Modes == {"NO", "RESTART", "REVERSE"}

Indices == {0} \cup UNION {-1 .. Len(m) - 1 : m \in Missions}

TypeOK ==
    /\ mode \in Modes
    /\ mission \in Missions \cup {None}
    /\ waypoint \in Indices \cup {None}
    /\ reversed \in BOOLEAN /\ idle \in BOOLEAN /\ misled \in BOOLEAN
    /\ handsOff \in BOOLEAN /\ asked \in BOOLEAN \cup {None}
    /\ latest \in Places \cup {None}
    /\ older \subseteq Places
    /\ dest \in Places
    /\ at \in Places \cup {Between}
    /\ sample \in Places \cup {Between, None}

Init ==
    /\ mode \in Modes
    /\ mission = None /\ waypoint = None /\ reversed = FALSE /\ idle = TRUE
    /\ asked = None
    /\ latest = None /\ older = {} /\ misled = FALSE
    /\ dest \in Places /\ at = dest
    /\ sample = None /\ handsOff = FALSE

\* mission[w]: Python counts from the end when w is negative.
Waypoint(m, w) == m[(w % Len(m)) + 1]

-----------------------------------------------------------------------------
(* What the handlers and the calls are made of.                            *)

Clear ==
    /\ mission' = None /\ waypoint' = None
    /\ reversed' = FALSE /\ idle' = TRUE

\* Faulty variant: the first waypoint is passed before it is noticed.
OverranLate(w, r) == IF r THEN w < -1 ELSE w >= Len(mission)

\* _has_overran_bounds
Overran(w, r) == IF r THEN w < 0 ELSE w >= Len(mission)

\* Faulty variant: a mission that is reversed at its last waypoint stays there.
ProgressLast(r) ==
    LET w == IF r THEN waypoint - 1 ELSE waypoint + 1
        Go(v, b) == waypoint' = v /\ reversed' = b /\ UNCHANGED <<mission, idle>>
    IN \/ ~Overran(w, r) /\ Go(w, r)
       \/ Overran(w, r) /\ mode = "NO" /\ Clear
       \/ Overran(w, r) /\ mode = "RESTART" /\ Go(0, r)
       \/ Overran(w, r) /\ mode = "REVERSE" /\ r /\ Go(0, FALSE)
       \/ Overran(w, r) /\ mode = "REVERSE" /\ ~r /\ Go(Len(mission), TRUE)

\* _progress_current_waypoint, in the direction r.
Progress(r) ==
    LET w == IF r THEN waypoint - 1 ELSE waypoint + 1
        Go(v, b) == waypoint' = v /\ reversed' = b /\ UNCHANGED <<mission, idle>>
    IN \/ ~Overran(w, r) /\ Go(w, r)
       \/ Overran(w, r) /\ mode = "NO" /\ Clear
       \/ Overran(w, r) /\ mode = "RESTART" /\ Go(0, r)
       \/ Overran(w, r) /\ mode = "REVERSE" /\ r /\ Go(0, FALSE)
       \/ Overran(w, r) /\ mode = "REVERSE" /\ ~r /\ Go(Len(mission) - 2, TRUE)

\* What is on its way once another GOTO is sent.
Pushed == older \cup ({latest} \ {None})

\* _travel_to_current_waypoint, of the mission m: a GOTO, or nothing without a waypoint,
\* or an IndexError in an empty mission.
Travel(m, w) ==
    IF m \in {None, <<>>}
    THEN UNCHANGED command
    ELSE /\ latest \notin older /\ Cardinality(Pushed) <= MaxOlder
         /\ latest' = Waypoint(m, w) /\ older' = Pushed /\ misled' = FALSE

-----------------------------------------------------------------------------
(* What the protocol calls, in a callback of its own.                      *)

\* start_mission.  An empty mission raises, and is the current one all the same.
StartMission(m) ==
    /\ ~handsOff
    /\ mission' = m /\ waypoint' = 0 /\ reversed' = FALSE /\ idle' = FALSE
    /\ asked' = None
    /\ Travel(m, 0)
    /\ UNCHANGED <<mode, vehicle, sample, handsOff>>

\* stop_mission: the vehicle is not told.
StopMission ==
    /\ ~handsOff
    /\ Clear /\ asked' = None
    /\ UNCHANGED <<mode, command, vehicle, sample, handsOff>>

\* set_current_waypoint, of a waypoint of the mission.
SetWaypoint(w) ==
    /\ ~handsOff /\ mission # None /\ w \in 0 .. Len(mission) - 1
    /\ waypoint' = w /\ asked' = None
    /\ Travel(mission, w)
    /\ UNCHANGED <<mode, mission, reversed, idle, vehicle, sample, handsOff>>

\* Faulty variant: the waypoint progresses though the direction is the same.
SetReversedAlways(r) ==
    /\ ~handsOff /\ mission # None /\ mode = "REVERSE"
    /\ asked' = r
    /\ Progress(r) /\ Travel(mission', waypoint')
    /\ UNCHANGED <<mode, vehicle, sample, handsOff>>

\* set_reversed: the waypoint progresses in the direction asked for, unless it is the
\* direction of travel.
SetReversed(r) ==
    /\ ~handsOff /\ mission # None /\ mode = "REVERSE"
    /\ asked' = r
    /\ IF r = reversed THEN UNCHANGED <<mission, waypoint, reversed, idle, command>>
                       ELSE Progress(r) /\ Travel(mission', waypoint')
    /\ UNCHANGED <<mode, vehicle, sample, handsOff>>

LetGo == ~handsOff /\ handsOff' = TRUE
         /\ UNCHANGED <<mode, plan, command, vehicle, sample>>

-----------------------------------------------------------------------------
(* Telemetry.                                                              *)

Sample ==
    /\ sample = None
    /\ sample' = at
    /\ UNCHANGED <<mode, plan, command, vehicle, handsOff>>

\* _has_reached_target.  It raises in an empty mission, and nothing is done.
Reached == mission \notin {None, <<>>} /\ sample = Waypoint(mission, waypoint)

\* Faulty variant: the waypoint progresses and no GOTO is sent.
TelemetryQuiet ==
    /\ sample # None /\ sample' = None
    /\ IF Reached THEN Progress(reversed) /\ asked' = None /\ UNCHANGED command
                  ELSE UNCHANGED <<plan, command>>
    /\ UNCHANGED <<mode, vehicle, handsOff>>

\* Faulty variant: the GOTO is sent before the waypoint progresses.
TelemetryEarly ==
    /\ sample # None /\ sample' = None
    /\ IF Reached THEN Progress(reversed) /\ asked' = None /\ Travel(mission, waypoint)
                  ELSE UNCHANGED <<plan, command>>
    /\ UNCHANGED <<mode, vehicle, handsOff>>

\* telemetry_handler
HandleTelemetry ==
    /\ sample # None /\ sample' = None
    /\ IF Reached THEN Progress(reversed) /\ asked' = None /\ Travel(mission', waypoint')
                  ELSE UNCHANGED <<plan, command>>
    /\ UNCHANGED <<mode, vehicle, handsOff>>

-----------------------------------------------------------------------------
(* The commands on their way, and the vehicle.                             *)

LatestArrives ==
    /\ latest # None
    /\ latest' = None /\ dest' = latest
    /\ misled' = (misled \/ older # {})
    /\ UNCHANGED <<mode, plan, older, at, sample, handsOff>>

OlderArrives(p) ==
    /\ p \in older
    /\ older' = older \ {p} /\ dest' = p
    /\ UNCHANGED <<mode, plan, latest, misled, at, sample, handsOff>>

LatestRefused ==
    /\ latest # None
    /\ latest' = None /\ misled' = TRUE
    /\ UNCHANGED <<mode, plan, older, vehicle, sample, handsOff>>

OlderRefused(p) ==
    /\ p \in older
    /\ older' = older \ {p}
    /\ UNCHANGED <<mode, plan, latest, misled, vehicle, sample, handsOff>>

\* On its way to its destination the vehicle may pass anywhere.
Fly(p) ==
    /\ at # dest /\ at' = p
    /\ UNCHANGED <<mode, plan, command, dest, sample, handsOff>>

-----------------------------------------------------------------------------

Call ==
    \/ StopMission \/ LetGo
    \/ \E m \in Missions : StartMission(m)
    \/ mission # None /\ \E w \in 0 .. Len(mission) - 1 : SetWaypoint(w)
    \/ \E r \in BOOLEAN : SetReversed(r)

World ==
    \/ Sample \/ LatestArrives \/ LatestRefused
    \/ \E p \in older : OlderArrives(p) \/ OlderRefused(p)
    \/ \E p \in Places \cup {Between} : Fly(p)

Next == Call \/ HandleTelemetry \/ World

Spec == Init /\ [][Next]_vars

\* The runner polls for ever and the vehicle flies where it was sent.  Commands are
\* answered or refused in the end.
Fairness ==
    /\ WF_vars(Sample) /\ SF_vars(HandleTelemetry)
    /\ WF_vars(LatestArrives \/ LatestRefused)
    /\ \A p \in Places :
          /\ WF_vars(OlderArrives(p) \/ OlderRefused(p))
          /\ WF_vars(dest = p /\ Fly(p))

FairSpec == Spec /\ Fairness

-----------------------------------------------------------------------------
(* What has to hold.                                                       *)

Flying == mission \notin {None, <<>>}

\* The waypoint is one of the mission's, whatever the loop mode, the calls and old
\* samples do to it; only in a mission of one waypoint, flown backwards, may it be -1,
\* which Python reads as the last.
CursorInMission ==
    /\ idle <=> mission = None
    /\ mission = None <=> waypoint = None
    /\ mission = None => ~reversed
    /\ reversed => mode = "REVERSE"
    /\ Flying => IF Len(mission) = 1 THEN waypoint = 0 \/ (reversed /\ waypoint = -1)
                 ELSE waypoint \in 0 .. Len(mission) - 1

\* While nothing was refused or overtaken, the last word the vehicle has or will have
\* heard is the current waypoint, whatever called the plugin and however old the samples.
FollowsWaypoint ==
    Flying /\ ~misled =>
        IF latest # None THEN latest = Waypoint(mission, waypoint)
        ELSE dest = Waypoint(mission, waypoint) /\ older = {}

\* A protocol that lets a mission go on, with no GOTO refused or overtaken, has it flown:
\* to its end if it does not loop, and to each of its waypoints again and again if it
\* does.
MissionIsFlown ==
    <>[](handsOff /\ ~misled) =>
        \/ <>[](mission \in {None, <<>>})
        \/ /\ mode # "NO"
           /\ \A i \in Indices \ {-1} :
                 []<>(Flying /\ (i < Len(mission) => waypoint % Len(mission) = i))

Route == INSTANCE Patrol WITH
    leg <- IF Flying THEN waypoint % Len(mission) ELSE waypoint,
    back <- reversed

\* The waypoints follow each other as the documentation of LoopMission, set_reversed and
\* set_current_waypoint says, whatever calls fall between the samples: set_reversed(r)
\* turns the node round if it is not going in the direction r, and leaves it alone if
\* it is -- but for the ends of the mission, where there is no waypoint to turn back to
\* and the code leaves the direction as it was (Patrol!Refuse).
FollowsRoute == Route!Spec

=============================================================================
