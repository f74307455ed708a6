------------------------ MODULE MissionMobility_proofs ------------------------
(***************************************************************************)
(* The waypoint of a mission stays in it, the vehicle follows it, and the  *)
(* route is Patrol's, for any missions and any number of commands on their *)
(* way.                                                                    *)
(***************************************************************************)
EXTENDS MissionMobility, TLAPS

-----------------------------------------------------------------------------
(* Waypoints.                                                              *)

LEMMA InRange ==
    ASSUME NEW n \in Nat \ {0}, NEW w \in 0 .. n - 1 PROVE w % n = w
  OBVIOUS

LEMMA ModRange ==
    ASSUME NEW n \in Nat \ {0}, NEW w \in Int PROVE w % n \in 0 .. n - 1
  OBVIOUS

LEMMA StaysInside ==
    ASSUME NEW n \in Nat, n > 0, n # 1, NEW w \in 0 .. n - 1,
           NEW v, v = 0 \/ (w < n - 1 /\ v = w + 1) \/ v = n - 2
    PROVE  v \in 0 .. n - 1
  OBVIOUS

LEMMA MissionTypes ==
    ASSUME NEW m \in Missions
    PROVE  m \in Seq(Places) /\ Len(m) \in Nat /\ m # None /\ (m # <<>> => Len(m) > 0)
  BY MobilityAssumption

LEMMA WaypointType ==
    ASSUME NEW m \in Missions, m # <<>>, NEW w \in Int
    PROVE  Waypoint(m, w) \in Places
  <1>3. Len(m) \in Nat \ {0}
    BY MissionTypes
  <1>1. w % Len(m) \in 0 .. Len(m) - 1
    BY <1>3, ModRange
  <1>2. (w % Len(m)) + 1 \in 1 .. Len(m)
    BY <1>1, <1>3
  <1> QED BY <1>2, MissionTypes DEF Waypoint

LEMMA IndexTypes ==
    /\ 0 \in Indices /\ Indices \subseteq Int /\ None \notin Indices
    /\ \A m \in Missions : -1 .. Len(m) - 1 \subseteq Indices
  BY MissionTypes, MobilityAssumption DEF Indices

\* An empty mission stays at its beginning: nothing moves its waypoint.
EmptyWaits == mission = <<>> /\ mission # None => waypoint = 0 /\ ~reversed

PlanInv == TypeOK /\ CursorInMission /\ EmptyWaits

\* The same of the plan alone.
PlanTypes ==
    /\ mission \in Missions \cup {None} /\ waypoint \in Indices \cup {None}
    /\ reversed \in BOOLEAN /\ idle \in BOOLEAN

Sound == PlanTypes /\ CursorInMission /\ EmptyWaits

LEMMA ClearSound == Clear => Sound'
  BY MobilityAssumption DEF Clear, Sound, PlanTypes, CursorInMission, EmptyWaits, Flying

\* The ways in which a waypoint progresses, backwards and forwards.
LEMMA ProgressBack ==
    ASSUME waypoint \in Int, Progress(TRUE)
    PROVE  \/ mode = "NO" /\ waypoint <= 0 /\ Clear
           \/ /\ mission' = mission /\ idle' = idle
              /\ \/ waypoint > 0 /\ waypoint' = waypoint - 1 /\ reversed' = TRUE
                 \/ mode = "RESTART" /\ waypoint <= 0 /\ waypoint' = 0 /\ reversed' = TRUE
                 \/ mode = "REVERSE" /\ waypoint <= 0 /\ waypoint' = 0 /\ reversed' = FALSE
  <1>1. Overran(waypoint - 1, TRUE) <=> waypoint <= 0
    BY DEF Overran
  <1> QED BY <1>1 DEF Progress, Overran

LEMMA ProgressForth ==
    ASSUME waypoint \in Int, Len(mission) \in Nat, Progress(FALSE)
    PROVE  \/ mode = "NO" /\ waypoint >= Len(mission) - 1 /\ Clear
           \/ /\ mission' = mission /\ idle' = idle
              /\ \/ /\ waypoint < Len(mission) - 1 /\ waypoint' = waypoint + 1
                    /\ reversed' = FALSE
                 \/ /\ mode = "RESTART" /\ waypoint >= Len(mission) - 1
                    /\ waypoint' = 0 /\ reversed' = FALSE
                 \/ /\ mode = "REVERSE" /\ waypoint >= Len(mission) - 1
                    /\ waypoint' = Len(mission) - 2 /\ reversed' = TRUE
  <1>1. Overran(waypoint + 1, FALSE) <=> waypoint >= Len(mission) - 1
    BY DEF Overran
  <1> QED BY <1>1 DEF Progress, Overran

\* The waypoint progresses within the mission, in whatever direction it may have.
LEMMA ProgressSound ==
    ASSUME PlanInv, NEW r \in BOOLEAN, r => mode = "REVERSE", mission # None,
           mission = <<>> => r, Progress(r), mode' = mode
    PROVE  Sound'
  <1> USE DEF PlanInv, TypeOK
  <1>1. mission \in Missions /\ waypoint \in Int /\ ~idle
    BY IndexTypes DEF CursorInMission
  <1>2. mission \in Seq(Places) /\ Len(mission) \in Nat /\ mission # None
    BY <1>1, MissionTypes
  <1>3. CASE Clear
    BY <1>3, ClearSound
  <1>4. ASSUME mission' = mission, idle' = idle, mission = <<>>, waypoint' = 0, ~reversed',
               reversed' \in BOOLEAN
        PROVE  Sound'
    BY <1>1, <1>4, IndexTypes, MobilityAssumption
       DEF Sound, PlanTypes, CursorInMission, EmptyWaits, Flying
  <1>5. ASSUME mission' = mission, idle' = idle, mission # <<>>, reversed' \in BOOLEAN,
               reversed' => mode = "REVERSE",
               IF Len(mission) = 1 THEN waypoint' = 0 \/ (reversed' /\ waypoint' = -1)
               ELSE waypoint' \in 0 .. Len(mission) - 1
        PROVE  Sound'
    <2>1. waypoint' \in -1 .. Len(mission) - 1
      BY <1>1, <1>2, <1>5
    <2>2. waypoint' \in Indices /\ waypoint' # None
      BY <2>1, <1>1, IndexTypes
    <2> QED BY <1>1, <1>2, <1>5, <2>2
            DEF Sound, PlanTypes, CursorInMission, EmptyWaits, Flying
  <1>6. CASE mission = <<>> /\ ~Clear
    <2>1. waypoint = 0 /\ r = TRUE /\ waypoint \in Int
      BY <1>1, <1>2, <1>6 DEF EmptyWaits
    <2>2. mission' = mission /\ idle' = idle /\ waypoint' = 0 /\ ~reversed'
          /\ reversed' \in BOOLEAN
      BY <1>1, <1>6, <2>1, ProgressBack
    <2> QED BY <1>4, <1>6, <2>2
  <1>7. CASE mission # <<>> /\ ~Clear
    <2> DEFINE n == Len(mission)
    <2>1. IF n = 1 THEN waypoint = 0 \/ (reversed /\ waypoint = -1)
          ELSE waypoint \in 0 .. n - 1
      BY <1>1, <1>2, <1>7 DEF CursorInMission, Flying
    <2>2. n \in Nat /\ n > 0
      BY <1>1, <1>7, MissionTypes
    <2>3. CASE r = TRUE
      <3>1. /\ mission' = mission /\ idle' = idle /\ reversed' \in BOOLEAN
            /\ waypoint' = 0 \/ (waypoint > 0 /\ waypoint' = waypoint - 1)
        BY <1>1, <1>7, <2>3, ProgressBack
      <3>2. IF n = 1 THEN waypoint' = 0 ELSE waypoint' \in 0 .. n - 1
        BY <2>1, <2>2, <3>1
      <3> QED BY <1>5, <1>7, <2>3, <3>1, <3>2
    <2>4. CASE r = FALSE
      <3>1. /\ mission' = mission /\ idle' = idle
            /\ reversed' \in BOOLEAN /\ (reversed' => mode = "REVERSE")
        BY <1>1, <1>2, <1>7, <2>4, ProgressForth
      <3>2. \/ waypoint' = 0
            \/ waypoint < n - 1 /\ waypoint' = waypoint + 1
            \/ waypoint' = n - 2 /\ reversed'
        BY <1>1, <1>2, <1>7, <2>4, ProgressForth
      <3>3. CASE n = 1
        <4>1. waypoint' = 0 \/ (reversed' /\ waypoint' = -1)
          BY <2>1, <3>2, <3>3
        <4> QED BY <1>5, <1>7, <3>1, <3>3, <4>1
      <3>4. CASE n # 1
        <4>2. waypoint \in 0 .. n - 1
          BY <2>1, <3>4
        <4>1. waypoint' \in 0 .. n - 1
          BY <2>2, <3>2, <3>4, <4>2, StaysInside
        <4> QED BY <1>5, <1>7, <3>1, <3>4, <4>1
      <3> QED BY <3>3, <3>4
    <2> QED BY <2>3, <2>4
  <1> QED BY <1>3, <1>6, <1>7

-----------------------------------------------------------------------------
(* Steps.                                                                  *)

\* The commands and the vehicle have their types.
CommandTypes ==
    /\ latest \in Places \cup {None} /\ older \subseteq Places /\ misled \in BOOLEAN

WorldTypes ==
    /\ mode \in Modes /\ handsOff \in BOOLEAN /\ asked \in BOOLEAN \cup {None}
    /\ dest \in Places /\ at \in Places \cup {Between}
    /\ sample \in Places \cup {Between, None}

LEMMA Parts == PlanInv <=> Sound /\ CommandTypes /\ WorldTypes
  BY DEF PlanInv, Sound, TypeOK, PlanTypes, CommandTypes, WorldTypes

\* What the vehicle has been told last is the waypoint.
Told ==
    IF latest # None THEN latest = Waypoint(mission, waypoint)
    ELSE dest = Waypoint(mission, waypoint) /\ older = {}

LEMMA TravelTold ==
    ASSUME CommandTypes, Sound', Travel(mission', waypoint')
    PROVE  CommandTypes' /\ (Flying' => latest' = Waypoint(mission, waypoint)' /\ Told')
  <1>1. CASE mission' \in {None, <<>>}
    BY <1>1 DEF Travel, command, CommandTypes, Flying
  <1>2. CASE mission' \notin {None, <<>>}
    <2>1. latest' = Waypoint(mission', waypoint') /\ older' = Pushed /\ misled' = FALSE
      BY <1>2 DEF Travel
    <2>2. mission' \in Missions /\ waypoint' \in Int
      BY <1>2, IndexTypes DEF Sound, PlanTypes, CursorInMission
    <2>3. latest' \in Places
      BY <1>2, <2>1, <2>2, WaypointType
    <2>4. latest' # None
      BY <2>3, MobilityAssumption
    <2>5. CommandTypes'
      BY <2>1, <2>3 DEF CommandTypes, Pushed
    <2>6. Told'
      BY <2>1, <2>4 DEF Told, Waypoint
    <2> QED BY <2>1, <2>5, <2>6 DEF Waypoint
  <1> QED BY <1>1, <1>2

LEMMA StoppedSound == Clear => Sound' /\ ~Flying'
  BY ClearSound DEF Clear, Flying

MobilityInv == PlanInv /\ FollowsWaypoint

LEMMA InvParts ==
    ASSUME Sound', CommandTypes', WorldTypes', Flying' /\ ~misled' => Told'
    PROVE  MobilityInv'
  BY Parts DEF MobilityInv, FollowsWaypoint, Told, PlanInv, Sound, TypeOK, PlanTypes,
               CommandTypes, WorldTypes

LEMMA InvHas ==
    ASSUME MobilityInv
    PROVE  /\ PlanInv /\ Sound /\ CommandTypes /\ WorldTypes
           /\ Flying /\ ~misled => Told
  BY Parts DEF MobilityInv, FollowsWaypoint, Told

LEMMA ProgressInv ==
    ASSUME MobilityInv, NEW r \in BOOLEAN, r => mode = "REVERSE", mission # None,
           mission = <<>> => r, Progress(r), Travel(mission', waypoint'),
           mode' = mode, WorldTypes'
    PROVE  MobilityInv'
  <1>1. Sound'
    BY InvHas, ProgressSound
  <1>2. CommandTypes' /\ (Flying' => Told')
    BY <1>1, InvHas, TravelTold
  <1> QED BY <1>1, <1>2, InvParts

LEMMA CallInv == MobilityInv /\ Call => MobilityInv'
  <1> SUFFICES ASSUME MobilityInv, Call PROVE MobilityInv'
    OBVIOUS
  <1> USE InvHas
  <1>1. CASE StopMission
    <2>1. WorldTypes' /\ CommandTypes'
      BY <1>1 DEF StopMission, WorldTypes, CommandTypes, command, vehicle
    <2> QED BY <1>1, <2>1, StoppedSound, InvParts DEF StopMission
  <1>2. CASE LetGo
    BY <1>2, InvParts DEF LetGo, plan, command, vehicle, WorldTypes, CommandTypes, Sound,
       PlanTypes, CursorInMission, EmptyWaits, Flying, Told
  <1>3. ASSUME NEW m \in Missions, StartMission(m) PROVE MobilityInv'
    <2>1. Sound'
      <3>1. mission' = m /\ waypoint' = 0 /\ reversed' = FALSE /\ idle' = FALSE
        BY <1>3 DEF StartMission
      <3>2. m # None /\ 0 # None /\ Len(m) \in Nat /\ (m # <<>> => Len(m) > 0)
        BY MissionTypes, IndexTypes
      <3>3. m # <<>> => IF Len(m) = 1 THEN TRUE ELSE 0 \in 0 .. Len(m) - 1
        BY <3>2
      <3> QED BY <3>1, <3>2, <3>3, IndexTypes
              DEF Sound, PlanTypes, CursorInMission, EmptyWaits, Flying
    <2>2. WorldTypes'
      BY <1>3 DEF StartMission, WorldTypes, vehicle
    <2>3. Travel(mission', waypoint')
      BY <1>3 DEF StartMission
    <2> QED BY <2>1, <2>2, <2>3, TravelTold, InvParts
  <1>4. ASSUME mission # None, NEW w \in 0 .. Len(mission) - 1, SetWaypoint(w)
        PROVE  MobilityInv'
    <2>1. mission \in Missions /\ Len(mission) \in Nat /\ Len(mission) > 0
      BY <1>4, MissionTypes DEF Sound, PlanTypes
    <2>2. w \in Indices /\ w # None /\ mission # <<>>
      BY <2>1, IndexTypes
    <2>3. Len(mission) = 1 => w = 0
      BY <2>1
    <2>4. Sound'
      BY <1>4, <2>1, <2>2, <2>3
         DEF SetWaypoint, Sound, PlanTypes, CursorInMission, EmptyWaits, Flying
    <2>5. WorldTypes'
      BY <1>4 DEF SetWaypoint, WorldTypes, vehicle
    <2>6. Travel(mission', waypoint')
      BY <1>4 DEF SetWaypoint
    <2> QED BY <2>4, <2>5, <2>6, TravelTold, InvParts
  <1>5. ASSUME NEW r \in BOOLEAN, SetReversed(r) PROVE MobilityInv'
    <2>1. mission = <<>> /\ r # reversed => r
      BY <1>5 DEF SetReversed, Sound, EmptyWaits, PlanTypes
    <2>2. WorldTypes'
      BY <1>5 DEF SetReversed, WorldTypes, vehicle
    <2>3. CASE r # reversed
      BY <1>5, <2>1, <2>2, <2>3, ProgressInv DEF SetReversed
    <2>4. CASE r = reversed
      <3>1. UNCHANGED <<mode, mission, waypoint, reversed, idle, latest, older, misled, dest>>
        BY <1>5, <2>4 DEF SetReversed, command, vehicle
      <3>2. Sound' /\ CommandTypes' /\ Flying' = Flying /\ Told' = Told
        BY <3>1 DEF CommandTypes, Sound, PlanTypes, CursorInMission, EmptyWaits, Flying, Told,
                    Waypoint
      <3> QED BY <2>2, <3>1, <3>2, InvParts
    <2> QED BY <2>3, <2>4
  <1> QED BY <1>1, <1>2, <1>3, <1>4, <1>5 DEF Call

LEMMA TelemetryInv == MobilityInv /\ HandleTelemetry => MobilityInv'
  <1> SUFFICES ASSUME MobilityInv, HandleTelemetry PROVE MobilityInv'
    OBVIOUS
  <1>1. WorldTypes'
    BY InvHas DEF HandleTelemetry, WorldTypes, vehicle, plan
  <1>2. CASE Reached
    BY <1>1, <1>2, InvHas, ProgressInv
       DEF HandleTelemetry, Reached, Sound, PlanTypes, CursorInMission
  <1>3. CASE ~Reached
    BY <1>1, <1>3, InvHas, InvParts
       DEF HandleTelemetry, plan, command, vehicle, CommandTypes, Sound, PlanTypes,
           CursorInMission, EmptyWaits, Flying, Told
  <1> QED BY <1>2, <1>3

\* The plan is left alone by everything else.
LEMMA PlanKept ==
    ASSUME Sound, UNCHANGED <<mode, plan>>
    PROVE  /\ Sound' /\ Flying' = Flying /\ asked' = asked
           /\ Waypoint(mission, waypoint)' = Waypoint(mission, waypoint)
  BY DEF plan, Sound, PlanTypes, CursorInMission, EmptyWaits, Flying, Waypoint

LEMMA WorldInv == MobilityInv /\ World => MobilityInv'
  <1> SUFFICES ASSUME MobilityInv, World PROVE MobilityInv'
    OBVIOUS
  <1> USE InvHas, PlanKept, InvParts
  <1>1. CASE Sample
    BY <1>1 DEF Sample, command, vehicle, CommandTypes, WorldTypes, Told
  <1>2. CASE LatestArrives
    <2>1. CommandTypes' /\ WorldTypes'
      BY <1>2 DEF LatestArrives, CommandTypes, WorldTypes
    <2>2. ~misled' /\ Flying
             => latest' = None /\ dest' = Waypoint(mission, waypoint) /\ older' = {}
      BY <1>2 DEF LatestArrives, Told, CommandTypes
    <2>3. UNCHANGED <<mode, plan>>
      BY <1>2 DEF LatestArrives
    <2> QED BY <2>1, <2>2, <2>3 DEF Told
  <1>3. CASE LatestRefused
    BY <1>3 DEF LatestRefused, vehicle, CommandTypes, WorldTypes, Told
  <1>4. ASSUME NEW p \in older, OlderArrives(p) PROVE MobilityInv'
    BY <1>4 DEF OlderArrives, CommandTypes, WorldTypes, Told
  <1>5. ASSUME NEW p \in older, OlderRefused(p) PROVE MobilityInv'
    BY <1>5 DEF OlderRefused, vehicle, CommandTypes, WorldTypes, Told
  <1>6. ASSUME NEW p \in Places \cup {Between}, Fly(p) PROVE MobilityInv'
    BY <1>6 DEF Fly, command, CommandTypes, WorldTypes, Told
  <1> QED BY <1>1, <1>2, <1>3, <1>4, <1>5, <1>6 DEF World

LEMMA MobilityInit == Init => MobilityInv
  BY MobilityAssumption, IndexTypes
     DEF Init, MobilityInv, PlanInv, TypeOK, CursorInMission, EmptyWaits,
         FollowsWaypoint, Flying

LEMMA MobilityNext == MobilityInv /\ [Next]_vars => MobilityInv'
  <1>1. MobilityInv /\ UNCHANGED vars => MobilityInv'
    BY DEF vars, MobilityInv, PlanInv, TypeOK, CursorInMission, EmptyWaits, FollowsWaypoint,
           Flying, Waypoint
  <1> QED BY <1>1, CallInv, TelemetryInv, WorldInv DEF Next

\* The plugin, its commands and the vehicle keep their types.
THEOREM MobilityTypes == Spec => []TypeOK
  <1>1. MobilityInv => TypeOK
    BY DEF MobilityInv, PlanInv
  <1> QED BY <1>1, MobilityInit, MobilityNext, PTL DEF Spec

\* The waypoint stays in the mission, whatever the mission.
THEOREM CursorStays == Spec => []CursorInMission
  <1>1. MobilityInv => CursorInMission
    BY DEF MobilityInv, PlanInv
  <1> QED BY <1>1, MobilityInit, MobilityNext, PTL DEF Spec

\* The vehicle is told the current waypoint last, however many commands are on their way.
THEOREM VehicleFollows == Spec => []FollowsWaypoint
  <1>1. MobilityInv => FollowsWaypoint
    BY DEF MobilityInv
  <1> QED BY <1>1, MobilityInit, MobilityNext, PTL DEF Spec

-----------------------------------------------------------------------------
(* The route.                                                              *)

\* The waypoint that the route is at.
Leg == IF Flying THEN waypoint % Len(mission) ELSE waypoint

LEMMA ModOne == -1 % 1 = 0 /\ 0 % 1 = 0
  OBVIOUS

InFlight ==
    /\ mission \in Missions /\ mission # None /\ waypoint \in Int
    /\ Len(mission) \in Nat \ {0}
    /\ IF Len(mission) = 1 THEN waypoint = 0 \/ (reversed /\ waypoint = -1)
       ELSE waypoint \in 0 .. Len(mission) - 1

LEMMA FlyingNow == Sound /\ Flying => InFlight
  BY IndexTypes, MissionTypes DEF Sound, PlanTypes, CursorInMission, Flying, InFlight

LegIsWaypoint == Leg = IF Flying /\ Len(mission) = 1 THEN 0 ELSE waypoint

LEMMA LegValue == Sound => LegIsWaypoint
  <1> SUFFICES ASSUME Sound PROVE LegIsWaypoint
    OBVIOUS
  <1>1. CASE ~Flying
    BY <1>1 DEF Leg, LegIsWaypoint
  <1>2. CASE Flying /\ Len(mission) = 1
    BY <1>2, FlyingNow, ModOne DEF Leg, LegIsWaypoint, InFlight
  <1>3. CASE Flying /\ Len(mission) # 1
    <2>1. waypoint \in 0 .. Len(mission) - 1 /\ Len(mission) \in Nat \ {0}
      BY <1>3, FlyingNow DEF InFlight
    <2>2. waypoint % Len(mission) = waypoint
      BY <2>1, InRange
    <2> QED BY <1>3, <2>2 DEF Leg, LegIsWaypoint
  <1> QED BY <1>1, <1>2, <1>3

\* A step of the route, or none.
OnRoute == [Route!Next]_(Route!vars)

\* The route stays where it is.
LEMMA Stands ==
    ASSUME UNCHANGED <<mode, mission, reversed, asked, handsOff>>, Leg' = Leg
    PROVE  OnRoute
  BY DEF OnRoute, Route!vars, Leg

\* Steps of a mission that goes on.
LEMMA RouteTurns ==
    ASSUME UNCHANGED <<mode, mission, handsOff>>, mission # None, asked' = None,
           \/ reversed' = reversed /\ Leg' \in 0 .. Len(mission) - 1
                 /\ Leg' = IF reversed THEN Leg - 1 ELSE Leg + 1
           \/ /\ reversed' = reversed /\ mode = "RESTART"
              /\ Leg = Len(mission) - 1 /\ Leg' = 0
           \/ /\ mode = "REVERSE" /\ Leg = Len(mission) - 1 /\ ~reversed
              /\ reversed' = TRUE /\ Leg' = IF Len(mission) - 1 = 0 THEN 0 ELSE Len(mission) - 2
           \/ /\ mode = "REVERSE" /\ Leg = 0 /\ reversed /\ reversed' = FALSE /\ Leg' = 0
    PROVE  OnRoute
  BY DEF OnRoute, Route!Next, Route!Onwards, Route!StartAgain, Route!TurnAtLast,
         Route!TurnAtFirst, Route!Travel, Route!Ongoing, Route!Last, Leg

LEMMA RouteEnds ==
    ASSUME mode = "NO", mission # None, Leg = Len(mission) - 1, Clear,
           asked' = None, UNCHANGED <<mode, handsOff>>
    PROVE  OnRoute
  <1>1. ~Flying'
    BY DEF Clear, Flying
  <1> QED BY <1>1 DEF OnRoute, Route!Next, Route!End, Route!Clear, Route!Last, Leg, Clear

\* What set_reversed(r) does to it.
LEMMA RouteAsked ==
    ASSUME UNCHANGED <<mode, mission, handsOff>>, mission # None, ~handsOff,
           mode = "REVERSE", NEW r \in BOOLEAN, asked' = r,
           \/ r = reversed /\ reversed' = reversed /\ Leg' = Leg
           \/ /\ r # reversed /\ reversed' = r
              /\ Leg' = IF reversed THEN Leg + 1 ELSE Leg - 1
              /\ Leg' \in 0 .. Len(mission) - 1
           \/ /\ r # reversed /\ reversed' = reversed
              /\ (IF reversed THEN Leg + 1 ELSE Leg - 1) \notin 0 .. Len(mission) - 1
              /\ Leg' = IF reversed /\ Len(mission) - 1 > 0 THEN Leg - 1 ELSE Leg
           \/ /\ Len(mission) = 1 /\ Leg = 0 /\ Leg' = 0
              /\ reversed = TRUE /\ r = FALSE /\ reversed' = FALSE
    PROVE  OnRoute
  <1>1. Route!AskedFor(r)
    BY DEF Route!AskedFor, Route!Ongoing
  <1>2. Route!AlreadySo(r) \/ Route!TurnRound(r) \/ Route!Refuse(r) => OnRoute
    BY DEF OnRoute, Route!Next
  <1>3. CASE r = reversed
    BY <1>1, <1>2, <1>3 DEF Route!AlreadySo, Leg
  <1>4. CASE r # reversed /\ reversed' = r /\ Leg' = (IF reversed THEN Leg + 1 ELSE Leg - 1)
             /\ Leg' \in 0 .. Len(mission) - 1
    BY <1>1, <1>2, <1>4 DEF Route!TurnRound, Route!From, Route!Last, Leg
  <1>5. CASE /\ r # reversed /\ reversed' = reversed
             /\ (IF reversed THEN Leg + 1 ELSE Leg - 1) \notin 0 .. Len(mission) - 1
             /\ Leg' = IF reversed /\ Len(mission) - 1 > 0 THEN Leg - 1 ELSE Leg
    BY <1>1, <1>2, <1>5 DEF Route!Refuse, Route!From, Route!Last, Leg
  <1>6. CASE /\ Len(mission) = 1 /\ Leg = 0 /\ Leg' = 0
             /\ reversed = TRUE /\ r = FALSE /\ reversed' = FALSE
    <2>1. Route!Last = 0
      BY <1>6 DEF Route!Last
    <2>2. Route!From = 1
      BY <1>6 DEF Route!From, Leg
    <2>3. Route!From \notin 0 .. Route!Last
      BY <2>1, <2>2
    <2> QED BY <1>1, <1>2, <1>6, <2>1, <2>3 DEF Route!Refuse, Leg
  <1> QED BY <1>3, <1>4, <1>5, <1>6

\* Where a mission is before and after a step in which it goes on.
LEMMA LegsOf ==
    ASSUME Sound, Sound', Flying, mission' = mission
    PROVE  /\ Len(mission) \in Nat \ {0} /\ waypoint \in Int /\ waypoint' \in Int
           /\ mission # None
           /\ Len(mission) = 1 => waypoint \in {-1, 0} /\ Leg = 0 /\ Leg' = 0
           /\ Len(mission) # 1 => /\ waypoint \in 0 .. Len(mission) - 1 /\ Leg = waypoint
                                  /\ waypoint' \in 0 .. Len(mission) - 1 /\ Leg' = waypoint'
  <1>1. Flying'
    BY DEF Flying
  <1>2. LegIsWaypoint /\ InFlight
    BY LegValue, FlyingNow
  <1>3. (Sound => LegIsWaypoint)' /\ (Sound /\ Flying => InFlight)'
    BY LegValue, FlyingNow, PTL
  <1>4. LegIsWaypoint' /\ InFlight'
    BY <1>1, <1>3
  <1> QED BY <1>1, <1>2, <1>4 DEF LegIsWaypoint, InFlight

\* Progress towards the end at hand is a step of the route.
LEMMA ProgressRoute ==
    ASSUME PlanInv, Sound', Flying, Progress(reversed), asked' = None,
           UNCHANGED <<mode, handsOff>>
    PROVE  OnRoute
  <1> DEFINE n == Len(mission)
  <1>1. Sound /\ mission # None /\ n \in Nat \ {0} /\ waypoint \in Int
    BY Parts, FlyingNow DEF InFlight
  <1>2. reversed \in BOOLEAN /\ (reversed => mode = "REVERSE")
    BY DEF PlanInv, TypeOK, CursorInMission
  <1>3. CASE Clear
    <2>1. mode = "NO" /\ reversed = FALSE /\ waypoint >= n - 1
      BY <1>1, <1>2, <1>3, ProgressBack, ProgressForth DEF Clear
    <2>2. Leg = n - 1
      BY <1>1, <2>1, LegValue, FlyingNow DEF LegIsWaypoint, InFlight
    <2> QED BY <1>1, <1>3, <2>1, <2>2, RouteEnds
  <1>4. CASE ~Clear /\ reversed = TRUE
    <2>1. mission' = mission
      BY <1>1, <1>4, ProgressBack
    <2>2. CASE waypoint > 0 /\ waypoint' = waypoint - 1 /\ reversed' = TRUE
      <3>1. n # 1
        BY <1>1, <2>1, <2>2, LegsOf
      <3>2. Leg' = Leg - 1 /\ Leg' \in 0 .. n - 1
        BY <1>1, <2>1, <2>2, <3>1, LegsOf
      <3> QED BY <1>1, <1>4, <2>1, <2>2, <3>2, RouteTurns
    <2>3. CASE waypoint <= 0 /\ waypoint' = 0 /\ reversed' = FALSE
      <3>1. Leg = 0 /\ Leg' = 0
        BY <1>1, <2>1, <2>3, LegsOf
      <3> QED BY <1>1, <1>2, <1>4, <2>1, <2>3, <3>1, RouteTurns
    <2> QED BY <1>1, <1>2, <1>4, <2>2, <2>3, ProgressBack
  <1>5. CASE ~Clear /\ reversed = FALSE
    <2>1. mission' = mission
      BY <1>1, <1>5, ProgressForth
    <2>2. CASE waypoint < n - 1 /\ waypoint' = waypoint + 1 /\ reversed' = FALSE
      <3>1. n # 1
        <4>1. InFlight
          BY <1>1, FlyingNow
        <4>2. Len(mission) = 1 => waypoint = 0 \/ (reversed /\ waypoint = -1)
          BY <4>1 DEF InFlight
        <4>3. Len(mission) = 1 => waypoint = 0
          BY <1>5, <4>2, Zenon
        <4>4. waypoint < n - 1
          BY <2>2
        <4> HIDE DEF n
        <4>5. n = 1 => waypoint < 0
          BY <1>1, <4>4
        <4> QED BY <4>3, <4>5 DEF n
      <3>2. Leg' = Leg + 1 /\ Leg' \in 0 .. n - 1
        BY <1>1, <2>1, <2>2, <3>1, LegsOf
      <3> QED BY <1>1, <1>5, <2>1, <2>2, <3>2, RouteTurns
    <2>3. CASE /\ mode = "RESTART" /\ waypoint >= n - 1
               /\ waypoint' = 0 /\ reversed' = FALSE
      <3>1. Leg = n - 1 /\ Leg' = 0
        BY <1>1, <2>1, <2>3, LegsOf
      <3> QED BY <1>1, <1>5, <2>1, <2>3, <3>1, RouteTurns
    <2>4. CASE /\ mode = "REVERSE" /\ waypoint >= n - 1
               /\ waypoint' = n - 2 /\ reversed' = TRUE
      <3>1. Leg = n - 1 /\ Leg' = IF n - 1 = 0 THEN 0 ELSE n - 2
        BY <1>1, <2>1, <2>4, LegsOf
      <3> QED BY <1>1, <1>5, <2>1, <2>4, <3>1, RouteTurns
    <2> QED BY <1>1, <1>5, <2>2, <2>3, <2>4, ProgressForth
  <1> QED BY <1>2, <1>3, <1>4, <1>5

\* So is what set_reversed does to it.
LEMMA ReverseRoute ==
    ASSUME PlanInv, Sound', NEW r \in BOOLEAN, r # reversed, mission # None, ~handsOff,
           mode = "REVERSE", Progress(r), asked' = r, UNCHANGED <<mode, handsOff>>
    PROVE  OnRoute
  <1> DEFINE n == Len(mission)
  <1>1. Sound /\ waypoint \in Int /\ reversed \in BOOLEAN /\ n \in Nat
    BY Parts, IndexTypes, MissionTypes DEF PlanInv, TypeOK, CursorInMission
  <1>2. CASE ~Flying
    <2>1. waypoint = 0 /\ r = TRUE /\ reversed = FALSE
      BY <1>1, <1>2 DEF Sound, EmptyWaits, Flying
    <2>2. mission' = mission /\ waypoint' = 0 /\ reversed' = FALSE
      BY <1>1, <2>1, ProgressBack
    <2>3. Leg = 0 /\ Leg' = 0
      BY <1>2, <2>1, <2>2 DEF Leg, Flying
    <2>4. Leg - 1 \notin 0 .. n - 1
      BY <2>3
    <2> HIDE DEF n
    <2> QED BY <2>1, <2>2, <2>3, <2>4, RouteAsked DEF n
  <1>3. CASE Flying /\ r = TRUE
    <2>1. mission' = mission /\ reversed = FALSE
      BY <1>1, <1>3, ProgressBack
    <2>2. CASE waypoint > 0 /\ waypoint' = waypoint - 1 /\ reversed' = TRUE
      <3>1. n # 1
        BY <1>1, <1>3, <2>1, <2>2, LegsOf
      <3>2. Leg' = Leg - 1 /\ Leg' \in 0 .. n - 1
        BY <1>1, <1>3, <2>1, <2>2, <3>1, LegsOf
      <3> QED BY <1>3, <2>1, <2>2, <3>2, RouteAsked
    <2>3. CASE waypoint <= 0 /\ waypoint' = 0 /\ reversed' = FALSE
      <3>1. Leg = 0 /\ Leg' = 0
        BY <1>1, <1>3, <2>1, <2>3, LegsOf
      <3>2. Leg - 1 \notin 0 .. n - 1
        BY <3>1
      <3> QED BY <1>3, <2>1, <2>3, <3>1, <3>2, RouteAsked
    <2> QED BY <1>1, <1>3, <2>2, <2>3, ProgressBack
  <1>4. CASE Flying /\ r = FALSE
    <2>1. mission' = mission /\ reversed = TRUE
      BY <1>1, <1>4, ProgressForth
    <2>2. CASE waypoint < n - 1 /\ waypoint' = waypoint + 1 /\ reversed' = FALSE
      <3>1. CASE n = 1
        <4>1. Leg = 0 /\ Leg' = 0
          BY <1>1, <1>4, <2>1, <3>1, LegsOf
        <4> QED BY <1>4, <2>1, <2>2, <3>1, <4>1, RouteAsked
      <3>2. CASE n # 1
        <4>1. Leg' = Leg + 1 /\ Leg' \in 0 .. n - 1
          BY <1>1, <1>4, <2>1, <2>2, <3>2, LegsOf
        <4> QED BY <1>4, <2>1, <2>2, <4>1, RouteAsked
      <3> QED BY <3>1, <3>2
    <2>3. CASE waypoint >= n - 1 /\ waypoint' = n - 2 /\ reversed' = TRUE
      <3>1. Leg + 1 \notin 0 .. n - 1 /\ Leg' = IF n - 1 > 0 THEN Leg - 1 ELSE Leg
        BY <1>1, <1>4, <2>1, <2>3, LegsOf
      <3> QED BY <1>4, <2>1, <2>3, <3>1, RouteAsked
    <2> QED BY <1>1, <1>4, <2>2, <2>3, ProgressForth
  <1> QED BY <1>2, <1>3, <1>4

LEMMA CallRoute == MobilityInv /\ MobilityInv' /\ Call => OnRoute
  <1> SUFFICES ASSUME MobilityInv, MobilityInv', Call PROVE OnRoute
    OBVIOUS
  <1>1. PlanInv /\ Sound /\ Sound'
    BY Parts DEF MobilityInv, PlanInv, Sound, TypeOK, PlanTypes
  <1>2. CASE StopMission
    BY <1>2 DEF StopMission, Clear, OnRoute, Route!Next, Route!Stop, Route!Clear, Flying
  <1>3. CASE LetGo
    BY <1>3 DEF LetGo, plan, OnRoute, Route!Next, Route!LetGo, Flying
  <1>4. ASSUME NEW m \in Missions, StartMission(m) PROVE OnRoute
    <2>1. (Sound => LegIsWaypoint)'
      BY LegValue, PTL
    <2>2. Leg' = 0
      BY <1>1, <1>4, <2>1 DEF StartMission, LegIsWaypoint
    <2> QED BY <1>4, <2>2
            DEF StartMission, OnRoute, Route!Next, Route!Begin, Leg
  <1>5. ASSUME mission # None, NEW w \in 0 .. Len(mission) - 1, SetWaypoint(w)
        PROVE  OnRoute
    <2>1. Len(mission) \in Nat /\ mission # <<>>
      BY <1>1, <1>5, MissionTypes DEF Sound, PlanTypes
    <2>2. Flying /\ mission' = mission /\ waypoint' = w
      BY <1>5, <2>1 DEF SetWaypoint, Flying
    <2>3. Leg' \in 0 .. Len(mission) - 1
      BY <1>1, <2>2, LegsOf
    <2> QED BY <1>5, <2>3 DEF SetWaypoint, OnRoute, Route!Next, Route!GoTo, Route!Travel, Route!Ongoing,
                              Route!Last, Leg
  <1>6. ASSUME NEW r \in BOOLEAN, SetReversed(r) PROVE OnRoute
    <2>1. CASE r # reversed
      BY <1>1, <1>6, <2>1, ReverseRoute DEF SetReversed
    <2>2. CASE r = reversed
      <3>1. Leg' = Leg
        BY <1>6, <2>2 DEF SetReversed, Leg, Flying
      <3> QED BY <1>6, <2>2, <3>1, RouteAsked DEF SetReversed
    <2> QED BY <2>1, <2>2
  <1> QED BY <1>2, <1>3, <1>4, <1>5, <1>6 DEF Call

LEMMA NextRoute == MobilityInv /\ MobilityInv' /\ [Next]_vars => OnRoute
  <1> SUFFICES ASSUME MobilityInv, MobilityInv', [Next]_vars PROVE OnRoute
    OBVIOUS
  <1>1. PlanInv /\ Sound'
    BY Parts DEF MobilityInv, PlanInv, Sound, TypeOK, PlanTypes
  <1>2. UNCHANGED <<mode, mission, waypoint, reversed, asked, handsOff>> => OnRoute
    BY Stands DEF Leg, Flying
  <1>3. CASE UNCHANGED vars
    BY <1>2, <1>3 DEF vars
  <1>4. CASE World
    BY <1>2, <1>4 DEF World, Sample, LatestArrives, LatestRefused, OlderArrives,
                      OlderRefused, Fly, plan
  <1>5. CASE HandleTelemetry
    <2>1. CASE Reached
      BY <1>1, <1>5, <2>1, ProgressRoute DEF HandleTelemetry, Reached, Flying
    <2>2. CASE ~Reached
      BY <1>2, <1>5, <2>2 DEF HandleTelemetry, plan
    <2> QED BY <2>1, <2>2
  <1> QED BY <1>3, <1>4, <1>5, CallRoute DEF Next

\* The waypoints follow each other as Patrol says, for any missions: set_reversed turns
\* the node the way it was asked to, but for the two ends.
THEOREM RouteIsPatrolled == Spec => FollowsRoute
  <1>1. Init => Route!Init
    BY DEF Init, Route!Init, Modes, Flying
  <1> QED BY <1>1, MobilityInit, MobilityNext, NextRoute, PTL
          DEF OnRoute, Spec, FollowsRoute, Route!Spec

=============================================================================
